---- MODULE Spec2Model ----
(***************************************************************************)
(* Model of the toy-handling core of VibeCheck                             *)
(* (src-tauri/src/toy_handling/handling.rs, toyops.rs).                    *)
(*                                                                         *)
(*   Spec      the toy management supervisor (toy_management_handler), its *)
(*             dispatcher tasks, the broadcast channel and the OSC ingest  *)
(*             tasks.                                                      *)
(*   SpecSeq   the global rate limiter (ToyRateLimiter) called by one      *)
(*             caller at a time.                                           *)
(*   SpecRace  the rate limiter called by two dispatcher tasks at once,    *)
(*             one atomic load or store per step.                          *)
(*   SpecMode  the mode processor (Raw, Smooth, Rate, Constant) of one     *)
(*             parameter and the command sent for what it yields.          *)
(*   SpecToy   the feature table of a toy (toyops.rs): auto-population,    *)
(*             the saved config, the updates of the frontend.              *)
(*   SpecDisp  the dispatcher of one toy: the signals it receives, the two *)
(*             passes of parse_osc_message, update_toy.                    *)
(*   SpecConn  the connection handler (client_event_handler): the live toy *)
(*             map, what it sends to the supervisor and to the frontend.   *)
(***************************************************************************)
EXTENDS Integers, Sequences, FiniteSets, TLC

(***************************************************************************)
(* Bounds of the model.                                                    *)
(***************************************************************************)
\* number of events the supervisor handles in one behaviour
MaxEvents == 4
\* number of OSC messages an ingest task publishes in one Listening session
MaxOsc == 1
\* devices that disconnect in one behaviour
MaxDisconnects == 1
\* slots of the broadcast channel; the program uses 1024
\* (handling.rs:726), the model a channel small enough to overflow
BcstCapacity == 1

\* calls of update_rate in one behaviour
MaxRateUpdates == 1
\* steps of 1 ms the clock makes in one behaviour
MaxSmallTicks == 1
\* the clock (ms since the epoch) when the program starts
ClockStart == 1000
\* the rates update_rate is called with
Rates == {0, 1, 3, 36}

\* OSC messages one parameter is fed in one behaviour
MaxInputs == 4
\* steps of ModeTickMs the time makes between the inputs of a parameter
MaxModeTicks == 2
\* length in ms of one such step
ModeTickMs == 75

\* DeviceAdded events of one name in one behaviour
MaxAdds == 2
\* features the frontend alters in one behaviour
MaxFeUpdates == 1

\* signals published to one dispatcher in one behaviour
MaxSignals == 3

\* device events the connection handler takes in one behaviour
MaxDevEvents == 4

\* ids of the toys (device indexes) that can show up
ToyIds == {1, 2}
\* feature tables a toy can carry (abstract values of VCToyFeatures)
Tables == {"A", "B"}
\* the table of a toy when the connection handler adds it; AlterToy
\* carries any table
AddTables == {"A"}
\* networking configs a StartListening can carry; the handler is started
\* with the config "n0"
Nets == {"n1"}
\* the config of a StartListening sent to a supervisor that is listening:
\* one that differs from the config in use
ListenNets == {"n2"}

VARIABLES
    \* ---- toy_management_handler ----
    tmh_alive,        \* the management loop has not returned
    listening,        \* handling.rs:671
    vc_config,        \* the stored OSCNetworking
    online_toys,      \* core_toy_manager.online_toys: toy id -> feature table
    running_toy_ths,  \* handling.rs:722: toy id -> task (index into tasks)
    tasks,            \* every dispatcher task ever spawned
    session,          \* number of Listening sessions entered so far
    bcst,             \* messages published on the current broadcast channel
    ingest,           \* every OSC ingest thread ever spawned
    connected,        \* dev.connected() of the device with that index
    nEvents,          \* events handled so far
    handled,          \* the event handled last
    \* ---- ToyRateLimiter ----
    clock,            \* SystemTime::now() in ms since the epoch
    last_update,      \* handling.rs:58
    messages_per_second, \* handling.rs:59
    rl_pc,            \* position of each caller inside can_send
    rl_loc,           \* locals of each caller inside can_send
    win,              \* the second that starts at the first passing call
    nRateUpdates,     \* calls of update_rate so far
    \* ---- mode processor of one parameter of one feature ----
    feature,          \* mode, flip_input_float and feature_levels
    processor,        \* ProcessingModeValues of the parameter
    instant,          \* Instant::now() in ms
    mp_out,           \* the input processed last and what came of it
    run,              \* the inputs fed since the smooth queue was empty
    nInputs,          \* inputs the parameter has been fed so far
    \* ---- feature table of the devices of one name ----
    toy,              \* the VCToy of the connected device
    toy_file,         \* the config file of the name
    toy_added,        \* what the last DeviceAdded did
    nAdds,            \* DeviceAdded events so far
    nFeUpdates,       \* updates of the frontend so far
    \* ---- the dispatcher of one toy ----
    vc_toy_features,  \* handling.rs:644
    toy_bcst_rx,      \* handling.rs:643
    newest_cfg,       \* configuration of the toy's newest published table
    disp_out,         \* the signal handled last and what came of it
    nPublished,       \* signals published so far
    \* ---- client_event_handler ----
    live_toys,        \* the live toy map of VibeCheckState
    tme_sent,         \* messages sent to the supervisor
    fe_toy_event,     \* events emitted to the frontend
    ceh,              \* position of the handler
    event_stream      \* device events taken so far

tmhVars == <<tmh_alive, listening, vc_config, online_toys, running_toy_ths,
             tasks, session, bcst, ingest, connected, nEvents, handled>>
rlVars == <<clock, last_update, messages_per_second, rl_pc, rl_loc, win,
            nRateUpdates>>
mpVars == <<feature, processor, instant, mp_out, run, nInputs>>
toyVars == <<toy, toy_file, toy_added, nAdds, nFeUpdates>>
dispVars == <<vc_toy_features, toy_bcst_rx, newest_cfg, disp_out, nPublished>>
connVars == <<live_toys, tme_sent, fe_toy_event, ceh, event_stream>>
vars == <<tmhVars, rlVars, mpVars, toyVars, dispVars, connVars>>
\* what the supervisor, the rate limiter, the mode processor, the feature
\* table, the dispatcher and the connection handler leave alone
notTmhVars == <<rlVars, mpVars, toyVars, dispVars, connVars>>
notRlVars == <<tmhVars, mpVars, toyVars, dispVars, connVars>>
notMpVars == <<tmhVars, rlVars, toyVars, dispVars, connVars>>
notToyVars == <<tmhVars, rlVars, mpVars, dispVars, connVars>>
notDispVars == <<tmhVars, rlVars, mpVars, toyVars, connVars>>
notConnVars == <<tmhVars, rlVars, mpVars, toyVars, dispVars>>

(***************************************************************************)
(* Functions as maps with a finite domain.                                 *)
(***************************************************************************)
EmptyMap == [x \in {} |-> 0]

\* HashMap::insert
MapInsert(m, k, v) == [x \in DOMAIN m \cup {k} |-> IF x = k THEN v ELSE m[x]]

\* HashMap::remove
MapRemove(m, k) == [x \in DOMAIN m \ {k} |-> m[x]]

Range(f) == {f[x] : x \in DOMAIN f}

(***************************************************************************)
(* Dispatcher tasks.                                                       *)
(*   toy     device index of the task's device handle                      *)
(*   feats   the task's own feature table (vc_toy_features)                *)
(*   rx      number of messages of the channel the receiver is past        *)
(*   status  "running"; "finished": left the loop; "aborted": aborted and  *)
(*           joined; "draining": its runtime was shut down in the          *)
(*           background and has not dropped it yet; "dropped"              *)
(*   want    table of the last UpdateToy published for the task's toy      *)
(*           while it was running ("" if none)                             *)
(***************************************************************************)
Live == {"running", "draining"}

NewTask(id, table, sess, tail) ==
    [toy |-> id, feats |-> table, rx |-> tail,
     status |-> "running", session |-> sess, want |-> ""]

\* a task that no longer exists keeps only its identity
Ended(t, how) ==
    [toy |-> t.toy, feats |-> "", rx |-> 0,
     status |-> how, session |-> t.session, want |-> ""]

NoEvent == [ev |-> "none", id |-> 0, wasListening |-> FALSE, task |-> 0]

TmhInit ==
    /\ tmh_alive = TRUE
    /\ listening = FALSE
    /\ vc_config = "n0"
    /\ online_toys = EmptyMap
    /\ running_toy_ths = EmptyMap
    /\ tasks = <<>>
    /\ session = 0
    /\ bcst = <<>>
    /\ ingest = <<>>
    /\ connected = [i \in ToyIds |-> TRUE]
    /\ nEvents = 0
    /\ handled = NoEvent

(***************************************************************************)
(* The broadcast channel (tokio::sync::broadcast, handling.rs:725).        *)
(***************************************************************************)
OscSig == [type |-> "OSCMsg", id |-> 0, table |-> ""]
UpdateSig(id, table) == [type |-> "UpdateToy", id |-> id, table |-> table]

\* receivers of the current channel: the supervisor's _toy_bcst_rx and one
\* per live dispatcher
BcstReceivers == 1 + Cardinality({k \in DOMAIN tasks : tasks[k].status \in Live})

\* BSender::send: Err only when the channel has no receiver
BcstSendOk == BcstReceivers > 0

OscCount == Cardinality({i \in DOMAIN bcst : bcst[i].type = "OSCMsg"})

(***************************************************************************)
(* Spawning, aborting and joining dispatcher tasks.                        *)
(***************************************************************************)
\* SpawnAll that leaves the loop after the first toy
SpawnAllFirstOnly(ts, toys, ids, sess) ==
    IF ids = {} THEN ts
    ELSE LET id == CHOOSE i \in ids : \A j \in ids : i <= j
         IN Append(ts, NewTask(id, toys[id], sess, 0))

RECURSIVE SpawnAll(_, _, _, _)
\* the loop of handling.rs:729-742: one task per toy of the map
SpawnAll(ts, toys, ids, sess) ==
    IF ids = {} THEN ts
    ELSE LET id == CHOOSE i \in ids : \A j \in ids : i <= j
         IN SpawnAll(Append(ts, NewTask(id, toys[id], sess, 0)),
                     toys, ids \ {id}, sess)

RECURSIVE HandlesOfSpawnAll(_, _, _)
\* running_toy_ths.insert of handling.rs:735-740, in the order of SpawnAll
HandlesOfSpawnAll(hs, ids, next) ==
    IF ids = {} THEN hs
    ELSE LET id == CHOOSE i \in ids : \A j \in ids : i <= j
         IN HandlesOfSpawnAll(MapInsert(hs, id, next), ids \ {id}, next + 1)

\* AbortAndJoin that drops the handle without aborting the task
AbortAndJoinDetach(ts, k) == ts

\* JoinHandle::abort followed by awaiting the handle: the task is cancelled
\* at its await point, or had already left its loop
AbortAndJoin(ts, k) ==
    [ts EXCEPT ![k] = IF @.status = "running" THEN Ended(@, "aborted") ELSE @]

RECURSIVE AbortAndJoinAll(_, _)
\* the loops of handling.rs:822-834 and 846-858
AbortAndJoinAll(ts, ks) ==
    IF ks = {} THEN ts
    ELSE LET k == CHOOSE i \in ks : TRUE
         IN AbortAndJoinAll(AbortAndJoin(ts, k), ks \ {k})

\* Runtime::shutdown_background: returns at once; the tasks of the runtime
\* that nobody aborted are dropped later, by the runtime's own threads
ShutdownBackground(ts) ==
    [k \in DOMAIN ts |->
        IF ts[k].status = "running" THEN [ts[k] EXCEPT !.status = "draining"]
        ELSE ts[k]]

Handled(ev, id, task) ==
    /\ nEvents' = nEvents + 1
    /\ handled' = [ev |-> ev, id |-> id, wasListening |-> listening, task |-> task]

(***************************************************************************)
(* toy_management_handler, not listening (handling.rs:676-712).            *)
(***************************************************************************)
\* IdleAddToy that spawns a dispatcher for the toy
IdleAddToySpawns(id, table) ==
    /\ tmh_alive /\ ~listening /\ nEvents < MaxEvents
    /\ online_toys' = MapInsert(online_toys, id, table)
    /\ tasks' = Append(tasks, NewTask(id, table, session, Len(bcst)))
    /\ running_toy_ths' = MapInsert(running_toy_ths, id, Len(tasks) + 1)
    /\ Handled("AddToy", id, 0)
    /\ UNCHANGED <<tmh_alive, listening, vc_config, session, bcst, ingest,
                   connected>>
    /\ UNCHANGED notTmhVars

IdleAddToy(id, table) ==
    /\ tmh_alive /\ ~listening /\ nEvents < MaxEvents
    /\ online_toys' = MapInsert(online_toys, id, table)
    /\ Handled("AddToy", id, 0)
    /\ UNCHANGED <<tmh_alive, listening, vc_config, running_toy_ths, tasks,
                   session, bcst, ingest, connected>>
    /\ UNCHANGED notTmhVars

IdleRemoveToy(id) ==
    /\ tmh_alive /\ ~listening /\ nEvents < MaxEvents
    /\ online_toys' = MapRemove(online_toys, id)
    /\ Handled("RemoveToy", id, 0)
    /\ UNCHANGED <<tmh_alive, listening, vc_config, running_toy_ths, tasks,
                   session, bcst, ingest, connected>>
    /\ UNCHANGED notTmhVars

IdleAlterToy(id, table) ==
    /\ tmh_alive /\ ~listening /\ nEvents < MaxEvents
    /\ online_toys' = MapInsert(online_toys, id, table)
    /\ Handled("AlterToy", id, 0)
    /\ UNCHANGED <<tmh_alive, listening, vc_config, running_toy_ths, tasks,
                   session, bcst, ingest, connected>>
    /\ UNCHANGED notTmhVars

\* StartListening while idle, and the Listening entry of handling.rs:716-757
\* that the same loop iteration runs
IdleStartListening(net) ==
    /\ tmh_alive /\ ~listening /\ nEvents < MaxEvents
    /\ vc_config' = net
    /\ listening' = TRUE
    /\ session' = session + 1
    /\ bcst' = <<>>
    /\ tasks' = SpawnAll(tasks, online_toys, DOMAIN online_toys, session + 1)
    /\ running_toy_ths' =
           HandlesOfSpawnAll(EmptyMap, DOMAIN online_toys, Len(tasks) + 1)
    /\ ingest' = Append(ingest, [session |-> session + 1, alive |-> TRUE])
    /\ Handled("StartListening", 0, 0)
    /\ UNCHANGED <<tmh_alive, online_toys, connected>>
    /\ UNCHANGED notTmhVars

\* IdleStopOrReset that leaves the management loop
IdleStopOrResetBreaks(sig) ==
    /\ tmh_alive /\ ~listening /\ nEvents < MaxEvents
    /\ tmh_alive' = FALSE
    /\ Handled(sig, 0, 0)
    /\ UNCHANGED <<listening, vc_config, online_toys,
                   running_toy_ths, tasks, session, bcst, ingest, connected>>
    /\ UNCHANGED notTmhVars

\* StopListening or TMHReset while idle: logged only
IdleStopOrReset(sig) ==
    /\ tmh_alive /\ ~listening /\ nEvents < MaxEvents
    /\ Handled(sig, 0, 0)
    /\ UNCHANGED <<tmh_alive, listening, vc_config, online_toys,
                   running_toy_ths, tasks, session, bcst, ingest, connected>>
    /\ UNCHANGED notTmhVars

(***************************************************************************)
(* toy_management_handler, listening (handling.rs:759-870).                *)
(***************************************************************************)
ListenAddToy(id, table) ==
    /\ tmh_alive /\ listening /\ nEvents < MaxEvents
    /\ online_toys' = MapInsert(online_toys, id, table)
    /\ tasks' = Append(tasks, NewTask(id, table, session, Len(bcst)))
    /\ running_toy_ths' = MapInsert(running_toy_ths, id, Len(tasks) + 1)
    /\ Handled("AddToy", id, Len(tasks) + 1)
    /\ UNCHANGED <<tmh_alive, listening, vc_config, session, bcst, ingest,
                   connected>>
    /\ UNCHANGED notTmhVars

ListenRemoveToy(id) ==
    /\ tmh_alive /\ listening /\ nEvents < MaxEvents
    /\ IF id \in DOMAIN running_toy_ths
       THEN /\ tasks' = AbortAndJoin(tasks, running_toy_ths[id])
            /\ running_toy_ths' = MapRemove(running_toy_ths, id)
            /\ online_toys' = MapRemove(online_toys, id)
            /\ Handled("RemoveToy", id, running_toy_ths[id])
       ELSE /\ Handled("RemoveToy", id, 0)
            /\ UNCHANGED <<tasks, running_toy_ths, online_toys>>
    /\ UNCHANGED <<tmh_alive, listening, vc_config, session, bcst, ingest,
                   connected>>
    /\ UNCHANGED notTmhVars

ListenAlterToy(id, table) ==
    /\ tmh_alive /\ listening /\ nEvents < MaxEvents
    /\ IF BcstSendOk
       THEN /\ bcst' = Append(bcst, UpdateSig(id, table))
            /\ tasks' = [k \in DOMAIN tasks |->
                           IF tasks[k].status = "running" /\ tasks[k].toy = id
                           THEN [tasks[k] EXCEPT !.want = table]
                           ELSE tasks[k]]
       ELSE UNCHANGED <<bcst, tasks>>
    /\ online_toys' = MapInsert(online_toys, id, table)
    /\ Handled("AlterToy", id, 0)
    /\ UNCHANGED <<tmh_alive, listening, vc_config, running_toy_ths, session,
                   ingest, connected>>
    /\ UNCHANGED notTmhVars

\* ListenStartListening that enters Listening anew: a new channel and a
\* new ingest thread
ListenStartListeningAnew(net) ==
    /\ tmh_alive /\ listening /\ nEvents < MaxEvents
    /\ vc_config' = net
    /\ bcst' = <<>>
    /\ ingest' = Append(ingest, [session |-> session, alive |-> TRUE])
    /\ Handled("StartListening", 0, 0)
    /\ UNCHANGED <<tmh_alive, listening, online_toys, running_toy_ths, tasks,
                   session, connected>>
    /\ UNCHANGED notTmhVars

\* StartListening while listening (handling.rs:813-818)
ListenStartListening(net) ==
    /\ tmh_alive /\ listening /\ nEvents < MaxEvents
    /\ vc_config' = net
    /\ Handled("StartListening", 0, 0)
    /\ UNCHANGED <<tmh_alive, listening, online_toys, running_toy_ths, tasks,
                   session, bcst, ingest, connected>>
    /\ UNCHANGED notTmhVars

\* StopListening and TMHReset have the same body
ListenStopOrReset(sig) ==
    /\ tmh_alive /\ listening /\ nEvents < MaxEvents
    /\ tasks' = ShutdownBackground(AbortAndJoinAll(tasks, Range(running_toy_ths)))
    /\ running_toy_ths' = EmptyMap
    /\ bcst' = <<>>
    /\ listening' = FALSE
    /\ Handled(sig, 0, 0)
    /\ UNCHANGED <<tmh_alive, vc_config, online_toys, session, ingest,
                   connected>>
    /\ UNCHANGED notTmhVars

(***************************************************************************)
(* The dispatcher closure f (handling.rs:642-669) and update_toy           *)
(* (handling.rs:1104-1113).                                                *)
(***************************************************************************)
\* update_toy: the table is replaced only by an update for the own device
update_toy(t, sig) ==
    IF sig.id # t.toy THEN t.feats ELSE sig.table

\* while dev.connected(): the task leaves its loop when it finds the device
\* disconnected.  Where the task stands (before the test, or inside
\* recv().await) is not tracked: a task of a disconnected device may leave
\* or may still take the signal it was waiting for.
DispatcherExit(k) ==
    /\ k \in DOMAIN tasks
    /\ tasks[k].status = "running"
    /\ ~connected[tasks[k].toy]
    /\ tasks' = [tasks EXCEPT ![k] = Ended(@, "finished")]
    /\ UNCHANGED <<tmh_alive, listening, vc_config, online_toys,
                   running_toy_ths, session, bcst, ingest, connected,
                   nEvents, handled>>
    /\ UNCHANGED notTmhVars

\* toy_bcst_rx.recv().await and the match on the signal
DispatcherRecv(k) ==
    /\ k \in DOMAIN tasks
    /\ tasks[k].status = "running"
    /\ tasks[k].rx < Len(bcst)
    /\ LET t == tasks[k] IN
         tasks' = [tasks EXCEPT ![k] =
            IF t.rx < Len(bcst) - BcstCapacity
            THEN \* Err(Lagged): the receiver skips to the oldest message kept
                 [t EXCEPT !.rx = Len(bcst) - BcstCapacity]
            ELSE LET sig == bcst[t.rx + 1] IN
                 [t EXCEPT !.rx = t.rx + 1,
                           !.feats = IF sig.type = "UpdateToy"
                                     THEN update_toy(t, sig) ELSE t.feats]]
    /\ UNCHANGED <<tmh_alive, listening, vc_config, online_toys,
                   running_toy_ths, session, bcst, ingest, connected,
                   nEvents, handled>>
    /\ UNCHANGED notTmhVars

\* a runtime that was shut down drops a task it still held
RuntimeDropTask(k) ==
    /\ k \in DOMAIN tasks
    /\ tasks[k].status = "draining"
    /\ tasks' = [tasks EXCEPT ![k] = Ended(@, "dropped")]
    /\ UNCHANGED <<tmh_alive, listening, vc_config, online_toys,
                   running_toy_ths, session, bcst, ingest, connected,
                   nEvents, handled>>
    /\ UNCHANGED notTmhVars

(***************************************************************************)
(* The OSC ingest thread (toy_input_routine) and the devices.              *)
(***************************************************************************)
\* the ingest thread of the current session publishes one OSC message
IngestPublish(k) ==
    /\ k \in DOMAIN ingest
    /\ ingest[k].alive /\ listening /\ ingest[k].session = session
    /\ OscCount < MaxOsc
    /\ bcst' = Append(bcst, OscSig)
    /\ UNCHANGED <<tmh_alive, listening, vc_config, online_toys,
                   running_toy_ths, tasks, session, ingest, connected,
                   nEvents, handled>>
    /\ UNCHANGED notTmhVars

\* an ingest thread whose channel has lost every receiver fails to publish
\* and returns
IngestExit(k) ==
    /\ k \in DOMAIN ingest
    /\ ingest[k].alive
    /\ ~listening \/ ingest[k].session # session
    /\ \A j \in DOMAIN tasks :
          tasks[j].session = ingest[k].session => tasks[j].status \notin Live
    /\ ingest' = [ingest EXCEPT ![k].alive = FALSE]
    /\ UNCHANGED <<tmh_alive, listening, vc_config, online_toys,
                   running_toy_ths, tasks, session, bcst, connected,
                   nEvents, handled>>
    /\ UNCHANGED notTmhVars

\* the device with index i disconnects
DeviceDisconnect(i) ==
    /\ connected[i]
    /\ Cardinality({j \in ToyIds : ~connected[j]}) < MaxDisconnects
    /\ connected' = [connected EXCEPT ![i] = FALSE]
    /\ UNCHANGED <<tmh_alive, listening, vc_config, online_toys,
                   running_toy_ths, tasks, session, bcst, ingest,
                   nEvents, handled>>
    /\ UNCHANGED notTmhVars

Next ==
    \/ \E id \in ToyIds, table \in AddTables : IdleAddToy(id, table)
    \/ \E id \in ToyIds : IdleRemoveToy(id)
    \/ \E id \in ToyIds, table \in Tables : IdleAlterToy(id, table)
    \/ \E net \in Nets : IdleStartListening(net)
    \/ \E sig \in {"StopListening", "TMHReset"} : IdleStopOrReset(sig)
    \/ \E id \in ToyIds, table \in AddTables : ListenAddToy(id, table)
    \/ \E id \in ToyIds : ListenRemoveToy(id)
    \/ \E id \in ToyIds, table \in Tables : ListenAlterToy(id, table)
    \/ \E net \in ListenNets : ListenStartListening(net)
    \/ \E sig \in {"StopListening", "TMHReset"} : ListenStopOrReset(sig)
    \/ \E k \in DOMAIN tasks : DispatcherExit(k)
    \/ \E k \in DOMAIN tasks : DispatcherRecv(k)
    \/ \E k \in DOMAIN tasks : RuntimeDropTask(k)
    \/ \E k \in DOMAIN ingest : IngestPublish(k)
    \/ \E k \in DOMAIN ingest : IngestExit(k)
    \/ \E i \in ToyIds : DeviceDisconnect(i)

(***************************************************************************)
(* Properties of the supervisor.                                           *)
(***************************************************************************)
\* the inputs of the supervisor's channel
Events ==
    [ev : {"AddToy", "AlterToy"}, id : ToyIds, table : Tables, net : {""}]
    \cup [ev : {"RemoveToy"}, id : ToyIds, table : {""}, net : {""}]
    \cup [ev : {"StartListening"}, id : {0}, table : {""},
          net : Nets \cup ListenNets]
    \cup [ev : {"StopListening", "TMHReset"}, id : {0}, table : {""}, net : {""}]

\* the supervisor handles the input e
HandleEvent(e) ==
    CASE e.ev = "AddToy" -> IdleAddToy(e.id, e.table) \/ ListenAddToy(e.id, e.table)
      [] e.ev = "RemoveToy" -> IdleRemoveToy(e.id) \/ ListenRemoveToy(e.id)
      [] e.ev = "AlterToy" -> IdleAlterToy(e.id, e.table) \/ ListenAlterToy(e.id, e.table)
      [] e.ev = "StartListening" -> IdleStartListening(e.net) \/ ListenStartListening(e.net)
      [] OTHER -> IdleStopOrReset(e.ev) \/ ListenStopOrReset(e.ev)

\* C1: while Listening, the ids that have a dispatcher handle are exactly
\* the ids of the toy map.
C1_HandlesMatchToyMap ==
    listening => DOMAIN running_toy_ths = DOMAIN online_toys

\* C2: after StopListening or Reset was handled while Listening, no
\* dispatcher spawned in that session is still alive (overwritten handles
\* included), no handle is left and the supervisor is Idle.
C2_StopLeavesNoDispatcher ==
    (handled.ev \in {"StopListening", "TMHReset"} /\ handled.wasListening) =>
        /\ ~listening
        /\ DOMAIN running_toy_ths = {}
        /\ \A k \in DOMAIN tasks :
              tasks[k].session = session => tasks[k].status \notin Live

\* C3: when RemoveToy(id) has been handled while Listening for a toy that
\* had a dispatcher handle, that dispatcher has terminated and the id has
\* no handle, until the next event is handled.
C3_RemoveToyJoinsDispatcher ==
    (handled.ev = "RemoveToy" /\ handled.wasListening /\ handled.task # 0) =>
        /\ tasks[handled.task].status \notin Live
        /\ handled.id \notin DOMAIN running_toy_ths

C3_Witness ==
    /\ handled.ev = "RemoveToy" /\ handled.wasListening /\ handled.task # 0
    /\ tasks[handled.task].status = "aborted"
    /\ tasks[handled.task].toy = handled.id

\* C4: after RemoveToy(id) has been handled, Idle or Listening, the toy map
\* does not contain id.
C4_RemoveToyDropsFromMap ==
    handled.ev = "RemoveToy" => handled.id \notin DOMAIN online_toys

\* C5: a running dispatcher of a connected toy that has consumed everything
\* published on the channel holds the table of the last AlterToy handled
\* for its toy.
C5_AlterToyApplied ==
    \A id \in DOMAIN running_toy_ths :
        LET t == tasks[running_toy_ths[id]] IN
        (listening /\ t.status = "running" /\ connected[id]
            /\ t.want # "" /\ t.rx = Len(bcst))
        => t.feats = t.want

\* C6: an Idle-to-Listening step spawns one dispatcher per toy of the map
\* and none else, each with the toy's table of the map, and one ingest
\* thread for the new channel.
C6_StartSpawns ==
    (~listening /\ listening') =>
        LET new == {k \in DOMAIN tasks' : k > Len(tasks)} IN
        /\ online_toys' = online_toys
        /\ \A k \in DOMAIN tasks : tasks'[k] = tasks[k]
        /\ \A id \in DOMAIN online_toys :
              Cardinality({k \in new : tasks'[k].toy = id}) = 1
        /\ \A k \in new :
              /\ tasks'[k].toy \in DOMAIN online_toys
              /\ tasks'[k].feats = online_toys[tasks'[k].toy]
              /\ tasks'[k].status = "running"
              /\ tasks'[k].session = session'
              /\ tasks'[k].rx = Len(bcst')
        /\ DOMAIN running_toy_ths' = DOMAIN online_toys
        /\ \A id \in DOMAIN online_toys :
              running_toy_ths'[id] \in new /\ tasks'[running_toy_ths'[id]].toy = id
        /\ session' # session
        /\ Len(ingest') = Len(ingest) + 1
        /\ \A k \in DOMAIN ingest : ingest'[k] = ingest[k]
        /\ ingest'[Len(ingest')].alive
        /\ ingest'[Len(ingest')].session = session'

C6_StartSpawnsExactly == [][C6_StartSpawns]_vars

\* a session entered with both toys in the map, one of them altered
C6_Witness ==
    /\ handled.ev = "StartListening" /\ ~handled.wasListening /\ listening
    /\ DOMAIN online_toys = ToyIds
    /\ \E i, j \in ToyIds : online_toys[i] # online_toys[j]
    /\ Cardinality({k \in DOMAIN tasks : tasks[k].session = session}) = 2
    /\ Cardinality({k \in DOMAIN ingest : ingest[k].session = session}) = 1

\* C7: the supervisor never leaves its loop: it is Idle or Listening and it
\* can handle every input.
C7_SupervisorNeverExits ==
    /\ tmh_alive
    /\ listening \in BOOLEAN
    /\ nEvents < MaxEvents => \A e \in Events : ENABLED HandleEvent(e)

\* the supervisor has handled inputs in both macro-states and is back in Idle
C7_Witness ==
    /\ tmh_alive /\ ~listening /\ session > 0
    /\ handled.ev \in {"StopListening", "TMHReset"} /\ ~handled.wasListening
    /\ nEvents >= 3

(***************************************************************************)
(* Signal processors (handling.rs:336-625) and command_toy                 *)
(* (handling.rs:1118-1221) for one parameter of one feature.  Levels and   *)
(* inputs are counted in hundredths: 100 is 1.0.                           *)
(*   feature    mode: the ProcessingMode of the parameter;                 *)
(*              flip_input_float; feature_levels: the LevelTweaks          *)
(*   processor  smooth_queue; rate_saved_level; rate_saved_osc_input;      *)
(*              rate_timestamp (NoInstant for None)                        *)
(*   mp_out     input: the OSC argument processed last; before: processor  *)
(*              before it; at: instant of the call; prev_at: instant of    *)
(*              the call before it; some, val: what the mode processor     *)
(*              returned; sent, level: the device command                  *)
(*   run        on, ins, outs: the non-zero floats fed one after another   *)
(*              from an empty smooth queue, up to smooth_rate of them, and *)
(*              what the mode processor returned for each                  *)
(***************************************************************************)
\* 1.0 in hundredths
Hundred == 100
\* the 0.15 s of the decrease tick
RateTickMs == 150
\* Option::None of rate_timestamp
NoInstant == -1

Abs(x) == IF x < 0 THEN -x ELSE x

\* f64::clamp, for lo <= hi
Clamp(x, lo, hi) == IF x < lo THEN lo ELSE IF x > hi THEN hi ELSE x

\* ((1.00 - orig) * 100.0).round() / 100.0 of a value in hundredths
flip_float64(orig) == Hundred - orig

\* clamp_and_flip that leaves out the clamp
clamp_and_flip_no_clamp(value, flip, levels) ==
    LET new_value == IF value = 0 THEN levels.idle_level ELSE value
    IN IF flip THEN flip_float64(new_value) ELSE new_value

clamp_and_flip(value, flip, levels) ==
    LET new_value == IF value = 0 THEN levels.idle_level
                     ELSE Clamp(value, levels.minimum_level, levels.maximum_level)
    IN IF flip THEN flip_float64(new_value) ELSE new_value

RECURSIVE SeqSum(_)
\* iter().sum()
SeqSum(q) == IF q = <<>> THEN 0 ELSE Head(q) + SeqSum(Tail(q))

\* f64::round of n / d, d > 0: to the nearest, halves away from zero
RoundDiv(n, d) ==
    IF n >= 0 THEN (2 * n + d) \div (2 * d) ELSE -((2 * (-n) + d) \div (2 * d))

\* (sum / len * 100.0).round() / 100.0 of a queue that is not empty
RoundMean(q) == RoundDiv(SeqSum(q), Len(q))

\* !flip_float && float_level == 0.0 || flip_float && float_level == 1.0
SmoothZero(float_level, flip_float) ==
    (~flip_float /\ float_level = 0) \/ (flip_float /\ float_level = Hundred)

\* parse_smoothing that does not clear a full queue
parse_smoothing_no_clear(smooth_queue, feature_levels, float_level, flip_float) ==
    IF SmoothZero(float_level, flip_float)
    THEN [queue |-> smooth_queue, kind |-> "SkipZero", out |-> float_level]
    ELSE [queue |-> Append(smooth_queue, float_level), kind |-> "Smoothing",
          out |-> 0]

parse_smoothing(smooth_queue, feature_levels, float_level, flip_float) ==
    LET full == Len(smooth_queue) = feature_levels.smooth_rate
        zero == SmoothZero(float_level, flip_float)
    IN IF full /\ ~zero
       THEN LET mean == RoundMean(smooth_queue)
            IN [queue |-> <<mean>>, kind |-> "Smoothed", out |-> mean]
       ELSE LET q == IF full THEN <<>> ELSE smooth_queue
            IN IF zero
               THEN [queue |-> q, kind |-> "SkipZero", out |-> float_level]
               ELSE [queue |-> Append(q, float_level), kind |-> "Smoothing",
                     out |-> 0]

\* !flip_float && float_level <= 0.0 || flip_float && float_level >= 1.0
RateZero(float_level, flip_float) ==
    (~flip_float /\ float_level <= 0) \/ (flip_float /\ float_level >= Hundred)

\* parse_rate that never asks for last_tick to be reset
parse_rate_never_reset(p, decrement_rate, float_level, flip_float, now) ==
    IF RateZero(float_level, flip_float)
    THEN [p |-> [p EXCEPT !.rate_saved_level = float_level,
                          !.rate_saved_osc_input = float_level],
          kind |-> "SkipZero", out |-> 0, reset |-> FALSE]
    ELSE LET dist == Clamp(Abs(float_level - p.rate_saved_osc_input), 0, Hundred)
             lvl == Clamp(p.rate_saved_level + dist, 0, Hundred)
             p1 == [p EXCEPT !.rate_saved_level = lvl,
                             !.rate_saved_osc_input = float_level]
         IN IF p.rate_timestamp # NoInstant
                /\ now - p.rate_timestamp >= RateTickMs
            THEN LET dec == Clamp(lvl - decrement_rate, 0, Hundred)
                 IN [p |-> [p1 EXCEPT !.rate_saved_level = dec],
                     kind |-> "RateCalculated", out |-> dec, reset |-> FALSE]
            ELSE [p |-> p1, kind |-> "RateCalculated", out |-> lvl,
                  reset |-> FALSE]

\* parse_rate at the instant now
parse_rate(p, decrement_rate, float_level, flip_float, now) ==
    IF RateZero(float_level, flip_float)
    THEN [p |-> [p EXCEPT !.rate_saved_level = float_level,
                          !.rate_saved_osc_input = float_level],
          kind |-> "SkipZero", out |-> 0, reset |-> FALSE]
    ELSE LET dist == Clamp(Abs(float_level - p.rate_saved_osc_input), 0, Hundred)
             lvl == Clamp(p.rate_saved_level + dist, 0, Hundred)
             p1 == [p EXCEPT !.rate_saved_level = lvl,
                             !.rate_saved_osc_input = float_level]
         IN IF p.rate_timestamp # NoInstant
                /\ now - p.rate_timestamp >= RateTickMs
            THEN LET dec == Clamp(lvl - decrement_rate, 0, Hundred)
                 IN [p |-> [p1 EXCEPT !.rate_saved_level = dec],
                     kind |-> "RateCalculated", out |-> dec, reset |-> TRUE]
            ELSE [p |-> p1, kind |-> "RateCalculated", out |-> lvl,
                  reset |-> FALSE]

\* Constant mode that takes 0.5 for low
constant_mode_above_half(input, feature_levels) ==
    IF (input.type = "Float" /\ input.f > 50) \/ (input.type = "Bool" /\ input.b)
    THEN feature_levels.constant_level ELSE 0

\* the Constant arm of mode_processor_logic
constant_mode(input, feature_levels) ==
    IF (input.type = "Float" /\ input.f >= 50) \/ (input.type = "Bool" /\ input.b)
    THEN feature_levels.constant_level ELSE 0

\* Option<f64>
None == [some |-> FALSE, val |-> 0]
Some(v) == [some |-> TRUE, val |-> v]

\* mode_processor and mode_processor_logic at the instant now: the new
\* mode values and the value to send, if any
mode_processor_logic(input, mode, p, feature_levels, flip_input, now) ==
    CASE mode = "Raw" ->
            [p |-> p,
             ret |-> IF input.type = "Float" THEN Some(input.f)
                     ELSE IF input.b THEN Some(Hundred) ELSE Some(0)]
      [] mode = "Smooth" ->
            IF input.type = "Float"
            THEN LET r == parse_smoothing(p.smooth_queue, feature_levels,
                                          input.f, flip_input)
                 IN [p |-> [p EXCEPT !.smooth_queue = r.queue],
                     ret |-> IF r.kind = "Smoothing" THEN None ELSE Some(r.out)]
            ELSE [p |-> p, ret |-> None]
      [] mode = "Rate" ->
            LET p0 == IF p.rate_timestamp = NoInstant
                      THEN [p EXCEPT !.rate_timestamp = now] ELSE p
            IN IF input.type = "Float"
               THEN LET r == parse_rate(p0, feature_levels.rate_tune, input.f,
                                        flip_input, now)
                    IN [p |-> IF r.reset
                              THEN [r.p EXCEPT !.rate_timestamp = now]
                              ELSE r.p,
                        ret |-> Some(r.out)]
               ELSE [p |-> p0, ret |-> None]
      [] mode = "Constant" ->
            [p |-> p, ret |-> Some(constant_mode(input, feature_levels))]

\* the OSC arguments a parameter is fed: floats rounded to hundredths
\* (handling.rs:1016) and booleans
FloatInputs == {-50, 0, 20, 50, 90, 100}
Float(v) == [type |-> "Float", f |-> v, b |-> FALSE]
Bool(x) == [type |-> "Bool", f |-> 0, b |-> x]
OscInputs == {Float(v) : v \in FloatInputs} \cup {Bool(x) : x \in BOOLEAN}

Modes == {"Raw", "Smooth", "Rate", "Constant"}
\* LevelTweaks::default() and tweaked levels, minimum_level <= maximum_level
DefaultLevels ==
    [minimum_level |-> 0, maximum_level |-> 100, idle_level |-> 0,
     smooth_rate |-> 2, rate_tune |-> 40, constant_level |-> 75]
LevelChoices ==
    {DefaultLevels,
     [minimum_level |-> 30, maximum_level |-> 60, idle_level |-> 10,
      smooth_rate |-> 1, rate_tune |-> 40, constant_level |-> 20],
     [minimum_level |-> 30, maximum_level |-> 60, idle_level |-> 10,
      smooth_rate |-> 3, rate_tune |-> 30, constant_level |-> 75]}

\* ProcessingModeValues of a parameter that has not been fed yet
NewProcessor ==
    [smooth_queue |-> <<>>, rate_saved_level |-> 0,
     rate_saved_osc_input |-> 0, rate_timestamp |-> NoInstant]

NoOutput ==
    [input |-> Bool(FALSE), before |-> NewProcessor, at |-> -1,
     prev_at |-> -1, some |-> FALSE, val |-> 0, sent |-> FALSE, level |-> 0]
NoRun == [on |-> FALSE, ins |-> <<>>, outs |-> <<>>]

\* a feature as auto-population leaves it, not fed
MpInit ==
    /\ feature = [mode |-> "Raw", flip_input_float |-> FALSE,
                  feature_levels |-> DefaultLevels]
    /\ processor = NewProcessor
    /\ instant = 0
    /\ mp_out = NoOutput
    /\ run = NoRun
    /\ nInputs = 0

\* a feature with any mode, flip and levels, not fed
MpInitAny ==
    /\ feature \in [mode : Modes, flip_input_float : BOOLEAN,
                    feature_levels : LevelChoices]
    /\ processor = NewProcessor
    /\ instant = 0
    /\ mp_out = NoOutput
    /\ run = NoRun
    /\ nInputs = 0

\* the run of non-zero floats fed from an empty smooth queue, after one
\* more input
RunNext(r, queue_before, input, ret, smooth_rate, flip_input) ==
    LET nz == input.type = "Float" /\ ~SmoothZero(input.f, flip_input)
    IN IF queue_before = <<>>
       THEN IF nz THEN [on |-> TRUE, ins |-> <<input.f>>, outs |-> <<ret>>]
            ELSE NoRun
       ELSE IF r.on /\ Len(r.ins) < smooth_rate /\ nz
            THEN [on |-> TRUE, ins |-> Append(r.ins, input.f),
                  outs |-> Append(r.outs, ret)]
            ELSE NoRun

\* a parameter pass that asks the rate limiter first and leaves the
\* parameter's mode state alone when the command is not sent
ParameterPassLimiterFirst(input, ok) ==
    LET levels == feature.feature_levels
        flip == feature.flip_input_float
        r == mode_processor_logic(input, feature.mode, processor, levels,
                                  flip, instant)
        cmd == r.ret.some /\ ok
    IN /\ nInputs < MaxInputs
       /\ nInputs' = nInputs + 1
       /\ processor' = IF ok THEN r.p ELSE processor
       /\ mp_out' = [input |-> input, before |-> processor, at |-> instant,
                     prev_at |-> mp_out.at, some |-> r.ret.some, val |-> r.ret.val, sent |-> cmd,
                     level |-> IF cmd
                               THEN clamp_and_flip(r.ret.val, flip, levels)
                               ELSE 0]
       /\ run' = IF feature.mode = "Smooth"
                 THEN RunNext(run, processor.smooth_queue, input, r.ret,
                              levels.smooth_rate, flip)
                 ELSE NoRun
       /\ UNCHANGED <<feature, instant>>
       /\ UNCHANGED notMpVars

\* the parameter pass of parse_osc_message for one feature (handling.rs:
\* 1012-1056): the mode processor, then command_toy, whose can_send returns
\* ok
ParameterPass(input, ok) ==
    LET levels == feature.feature_levels
        flip == feature.flip_input_float
        r == mode_processor_logic(input, feature.mode, processor, levels,
                                  flip, instant)
        cmd == r.ret.some /\ ok
    IN /\ nInputs < MaxInputs
       /\ nInputs' = nInputs + 1
       /\ processor' = r.p
       /\ mp_out' = [input |-> input, before |-> processor, at |-> instant,
                     prev_at |-> mp_out.at, some |-> r.ret.some, val |-> r.ret.val, sent |-> cmd,
                     level |-> IF cmd
                               THEN clamp_and_flip(r.ret.val, flip, levels)
                               ELSE 0]
       /\ run' = IF feature.mode = "Smooth"
                 THEN RunNext(run, processor.smooth_queue, input, r.ret,
                              levels.smooth_rate, flip)
                 ELSE NoRun
       /\ UNCHANGED <<feature, instant>>
       /\ UNCHANGED notMpVars

\* time passes between two inputs; only Rate mode reads the time
ModeTick ==
    /\ feature.mode = "Rate"
    /\ instant < MaxModeTicks * ModeTickMs
    /\ instant' = instant + ModeTickMs
    /\ UNCHANGED <<feature, processor, mp_out, run, nInputs>>
    /\ UNCHANGED notMpVars

ModeNext ==
    \/ \E input \in OscInputs, ok \in BOOLEAN : ParameterPass(input, ok)
    \/ ModeTick

(***************************************************************************)
(* Feature tables (toyops.rs): auto-population, the saved config and the   *)
(* updates of the frontend, for the devices of one name.                   *)
(*   toy        the VCToy of the connected device, if online:              *)
(*              toy_features: the actuators the device advertises          *)
(*              (linear and rotate: how many; scalar: their kinds in       *)
(*              order); parsed_toy_features: the feature table; config:    *)
(*              the features of the VCToyConfig, if some                   *)
(*   toy_file   the config file of the name: state "none", "bad" (not a    *)
(*              VCToyConfig) or "ok" with the features saved               *)
(*   toy_added  what the last DeviceAdded did: source: "config" or "auto", *)
(*              where the table came from; wrote: the file was written;    *)
(*              adv: what the device advertised                            *)
(***************************************************************************)
\* LevelTweaks::default(): minimum_level and maximum_level
DefaultRange == [minimum_level |-> 0, maximum_level |-> 100]

\* VCToyFeature::new; the osc_parameter is "/avatar/parameters/<name>_<index>"
NewFeature(name, feature_index, feature_type) ==
    [feature_type |-> feature_type, feature_index |-> feature_index,
     osc_parameter |-> <<name, feature_index>>, feature_levels |-> DefaultRange]

RECURSIVE populate_linears(_, _, _)
\* populate_linears from the indexer on, n actuators left
populate_linears(features, indexer, n) ==
    IF n = 0 THEN features
    ELSE populate_linears(
            Append(features, NewFeature("Linear", indexer, "Linear")),
            indexer + 1, n - 1)

RECURSIVE populate_rotators(_, _, _)
populate_rotators(features, indexer, n) ==
    IF n = 0 THEN features
    ELSE populate_rotators(
            Append(features, NewFeature("Rotator", indexer, "Rotator")),
            indexer + 1, n - 1)

\* the feature type and the name in the parameter of a scalar actuator
ScalarType(actuator_type) ==
    CASE actuator_type = "Rotate" -> <<"ScalarRotator", "Rotator">>
      [] actuator_type = "Vibrate" -> <<"Vibrator", "Vibrator">>
      [] actuator_type = "Constrict" -> <<"Constrict", "Constrict">>
      [] actuator_type = "Inflate" -> <<"Inflate", "Inflate">>
      [] actuator_type = "Oscillate" -> <<"Oscillate", "Oscillate">>
      [] actuator_type = "Position" -> <<"Position", "Position">>

RECURSIVE populate_scalars_same_index(_, _, _)
\* populate_scalars that does not advance the indexer
populate_scalars_same_index(features, indexer, scalars) ==
    IF scalars = <<>> THEN features
    ELSE LET a == Head(scalars)
             fs == IF a = "Unknown" THEN features
                   ELSE Append(features,
                               NewFeature(ScalarType(a)[2], indexer,
                                          ScalarType(a)[1]))
         IN populate_scalars_same_index(fs, indexer, Tail(scalars))

RECURSIVE populate_scalars(_, _, _)
\* populate_scalars from the indexer on: an Unknown actuator gets no
\* feature and uses up an index
populate_scalars(features, indexer, scalars) ==
    IF scalars = <<>> THEN features
    ELSE LET a == Head(scalars)
             fs == IF a = "Unknown" THEN features
                   ELSE Append(features,
                               NewFeature(ScalarType(a)[2], indexer,
                                          ScalarType(a)[1]))
         IN populate_scalars(fs, indexer + 1, Tail(scalars))

\* Option<VCToyConfig>
NoConfig == [some |-> FALSE, features |-> <<>>]
SomeConfig(features) == [some |-> TRUE, features |-> features]

\* the config file
NoFile == [state |-> "none", features |-> <<>>]
BadFile == [state |-> "bad", features |-> <<>>]
FileOf(features) == [state |-> "ok", features |-> features]

\* save_toy_config: the file after a write that succeeds
save_toy_config(t, file) ==
    IF t.config.some THEN FileOf(t.config.features) ELSE file

\* populate_routine: the toy and the file after it
populate_routine(t, file) ==
    LET f1 == populate_linears(t.parsed_toy_features, 0, t.toy_features.linear)
        f2 == populate_rotators(f1, 0, t.toy_features.rotate)
        f3 == populate_scalars(f2, 0, t.toy_features.scalar)
        t1 == [t EXCEPT !.parsed_toy_features = f3, !.config = SomeConfig(f3)]
    IN [toy |-> t1, file |-> save_toy_config(t1, file), saved |-> TRUE]

\* conn_toy_feature_count of populate_toy_config
conn_toy_feature_count(a) == Len(a.scalar) + a.rotate + a.linear

\* populate_toy_config that takes every loaded config
populate_toy_config_any_count(t, file) ==
    IF t.config.some
    THEN [toy |-> [t EXCEPT !.parsed_toy_features = t.config.features],
          file |-> file, saved |-> FALSE, source |-> "config"]
    ELSE LET r == populate_routine(t, file)
         IN [toy |-> r.toy, file |-> r.file, saved |-> r.saved,
             source |-> "auto"]

\* populate_toy_config: the toy after it and where its table came from
populate_toy_config(t, file) ==
    IF t.config.some
       /\ conn_toy_feature_count(t.toy_features) = Len(t.config.features)
    THEN [toy |-> [t EXCEPT !.parsed_toy_features = t.config.features],
          file |-> file, saved |-> FALSE, source |-> "config"]
    ELSE LET r == populate_routine(t, file)
         IN [toy |-> r.toy, file |-> r.file, saved |-> r.saved,
             source |-> "auto"]

\* load_toy_config: self.config after it
load_toy_config(file) ==
    IF file.state = "ok" THEN SomeConfig(file.features) ELSE NoConfig

\* LevelTweaks::from_fe: minimum_level and maximum_level
LevelTweaks_from_fe(fe_lt) ==
    [minimum_level |-> fe_lt.minimum_level, maximum_level |-> fe_lt.maximum_level]

\* VCFeatureType == FeVCFeatureType: the discriminants are equal
TypeEqFe(feature_type, fe_type) == feature_type = fe_type

\* VCToyFeatures::from_fe
VCToyFeatures_from_fe(features, fe_feature) ==
    [i \in DOMAIN features |->
        LET f == features[i] IN
        IF f.feature_index = fe_feature.feature_index
           /\ (TypeEqFe(f.feature_type, fe_feature.feature_type)
               \/ (f.feature_type = "ScalarRotator"
                   /\ fe_feature.feature_type = "Rotator"))
        THEN [f EXCEPT !.osc_parameter = fe_feature.osc_parameter,
                       !.feature_levels =
                           LevelTweaks_from_fe(fe_feature.feature_levels)]
        ELSE f]

\* the scalar actuators the devices advertise, in order
ScalarLists ==
    {<<>>, <<"Vibrate">>, <<"Rotate">>, <<"Unknown">>,
     <<"Vibrate", "Vibrate">>, <<"Vibrate", "Rotate">>,
     <<"Rotate", "Unknown">>, <<"Unknown", "Vibrate">>,
     <<"Rotate", "Rotate">>}
\* message_attributes() of the devices that show up
Adverts == [linear : {0, 1}, rotate : {0, 1}, scalar : ScalarLists]

\* FeVCFeatureType has no ScalarRotator
FeTypes == {"Vibrator", "Rotator", "Linear"}
\* the FeVCToyFeature objects the frontend sends
FeFeatures ==
    [feature_type : FeTypes, feature_index : 0..1,
     osc_parameter : {<<"Custom", 0>>},
     feature_levels : {[minimum_level |-> 20, maximum_level |-> 80],
                       [minimum_level |-> 60, maximum_level |-> 30]}]

NotAdded ==
    [source |-> "none", wrote |-> FALSE,
     adv |-> [linear |-> 0, rotate |-> 0, scalar |-> <<>>]]

\* no device of the name is connected
NoToy ==
    [online |-> FALSE, toy_features |-> [linear |-> 0, rotate |-> 0,
                                         scalar |-> <<>>],
     parsed_toy_features |-> <<>>, config |-> NoConfig]

ToyInit ==
    /\ toy = NoToy
    /\ toy_file = NoFile
    /\ toy_added = NotAdded
    /\ nAdds = 0
    /\ nFeUpdates = 0

\* no device yet; the config file is missing or is not a VCToyConfig
ToyInitAny ==
    /\ toy = NoToy
    /\ toy_file \in {NoFile, BadFile}
    /\ toy_added = NotAdded
    /\ nAdds = 0
    /\ nFeUpdates = 0

\* DeviceAdded of client_event_handler (handling.rs:153-194) for a device
\* that advertises adv
DeviceAdded(adv) ==
    /\ ~toy.online
    /\ nAdds < MaxAdds
    /\ nAdds' = nAdds + 1
    /\ LET t0 == [online |-> TRUE, toy_features |-> adv,
                  parsed_toy_features |-> <<>>,
                  config |-> load_toy_config(toy_file)]
           r == populate_toy_config(t0, toy_file)
       IN /\ toy' = r.toy
          /\ toy_file' = r.file
          /\ toy_added' = [source |-> r.source, wrote |-> r.saved,
                            adv |-> adv]
    /\ UNCHANGED nFeUpdates
    /\ UNCHANGED notToyVars

\* DeviceRemoved of client_event_handler (handling.rs:233-246)
DeviceRemoved ==
    /\ toy.online
    /\ toy' = NoToy
    /\ UNCHANGED <<toy_file, toy_added, nAdds, nFeUpdates>>
    /\ UNCHANGED notToyVars

\* the frontend alters one feature of the connected toy
FrontendUpdate(fe_feature) ==
    /\ toy.online
    /\ nFeUpdates < MaxFeUpdates
    /\ nFeUpdates' = nFeUpdates + 1
    /\ toy' = [toy EXCEPT !.parsed_toy_features =
                  VCToyFeatures_from_fe(toy.parsed_toy_features, fe_feature)]
    /\ UNCHANGED <<toy_file, toy_added, nAdds>>
    /\ UNCHANGED notToyVars

ToyNext ==
    \/ \E adv \in Adverts : DeviceAdded(adv)
    \/ DeviceRemoved
    \/ \E fe_feature \in FeFeatures : FrontendUpdate(fe_feature)

(***************************************************************************)
(* The dispatcher of one toy: the closure f (handling.rs:642-669),         *)
(* parse_osc_message (handling.rs:875-1101) and update_toy                 *)
(* (handling.rs:1104-1113), fed by its broadcast receiver.                 *)
(*   vc_toy_features  the dispatcher's own feature table                   *)
(*   toy_bcst_rx      the signals published and not yet received           *)
(*   newest_cfg       the configuration of the table the toy has by the    *)
(*                    signals published so far                             *)
(*   disp_out         the signal handled last: sig, the table before it    *)
(*                    was handled, rets: what process() of each feature    *)
(*                    returned, cmds: the calls of command_toy it led to,  *)
(*                    in order; n: signals handled so far                  *)
(*   nPublished       signals published so far                             *)
(***************************************************************************)
\* dev.index() of the dispatcher's device
DevIndex == 1
\* the addresses of the OSC messages
Addrs == {"/a", "/b"}
\* the levels of the features: LevelTweaks::default()
DispLevels == DefaultLevels

\* ToyParameter
ToyParameter(parameter, mode, values) ==
    [parameter |-> parameter, processing_mode |-> mode,
     processing_mode_values |-> values]

\* feature.penetration_system: pen_system is Some or None; address stands
\* for the addresses the input processor claims
NoPenetrationSystem ==
    [pen_system |-> FALSE, address |-> "",
     pen_system_processing_mode |-> "Raw",
     pen_system_processing_mode_values |-> NewProcessor]
PenetrationSystem(address, mode) ==
    [pen_system |-> TRUE, address |-> address,
     pen_system_processing_mode |-> mode,
     pen_system_processing_mode_values |-> NewProcessor]

VCToyFeature(feature_index, params, pen) ==
    [feature_enabled |-> TRUE, feature_index |-> feature_index,
     flip_input_float |-> FALSE, feature_levels |-> DispLevels,
     osc_parameters |-> params, penetration_system |-> pen]

\* two parameters of one address in feature 0, an input processor of that
\* address in feature 1
DispTableA ==
    <<VCToyFeature(0, <<ToyParameter("/a", "Smooth", NewProcessor),
                        ToyParameter("/a", "Raw", NewProcessor)>>,
                   NoPenetrationSystem),
      VCToyFeature(1, <<ToyParameter("/b", "Raw", NewProcessor)>>,
                   PenetrationSystem("/a", "Smooth"))>>
\* one feature with an input processor and two parameters of its address,
\* the second with a smooth queue that is not empty
DispTableB ==
    <<VCToyFeature(0, <<ToyParameter("/a", "Raw", NewProcessor),
                        ToyParameter("/a", "Smooth",
                            [NewProcessor EXCEPT !.smooth_queue = <<60>>])>>,
                   PenetrationSystem("/a", "Raw"))>>
\* a feature that is not enabled, with a Smooth and a Rate parameter, and
\* an enabled feature with a parameter of the same address
DispTableC ==
    <<[VCToyFeature(0, <<ToyParameter("/a", "Smooth", NewProcessor),
                         ToyParameter("/b", "Rate", NewProcessor)>>,
                    NoPenetrationSystem) EXCEPT !.feature_enabled = FALSE],
      VCToyFeature(1, <<ToyParameter("/a", "Raw", NewProcessor)>>,
                   NoPenetrationSystem)>>
DispTables == {DispTableA, DispTableB, DispTableC}

\* a table without the state of its mode processors
Config(features) ==
    [i \in DOMAIN features |->
        [features[i] EXCEPT
            !.osc_parameters =
                [j \in DOMAIN @ |->
                    [@[j] EXCEPT !.processing_mode_values = NewProcessor]],
            !.penetration_system.pen_system_processing_mode_values =
                NewProcessor]]

\* ToySig::OSCMsg and ToySig::UpdateToy(ToyUpdate::AlterToy(toy)); cfg is
\* the value of newest_cfg when the signal was published
OSCMsg(addr, arg, cfg) ==
    [type |-> "OSCMsg", addr |-> addr, arg |-> arg, toy_id |-> 0,
     parsed_toy_features |-> <<>>, cfg |-> cfg]
UpdateToy(toy_id, features, cfg) ==
    [type |-> "UpdateToy", addr |-> "", arg |-> Bool(FALSE),
     toy_id |-> toy_id, parsed_toy_features |-> features, cfg |-> cfg]
NoSig == OSCMsg("", Bool(FALSE), <<>>)

\* the arguments of the OSC messages
DispArgs == {Float(20), Float(60), Bool(TRUE)}
\* what the input processor of a feature returns for a message
PenRets == {None, Some(60)}

\* process() of no feature has returned a value
NoRets == [i \in 1..2 |-> None]

NoDispOut ==
    [n |-> 0, sig |-> NoSig, before |-> <<>>, rets |-> NoRets, cmds |-> <<>>]

\* no dispatcher has been spawned
DispNone ==
    /\ vc_toy_features = <<>>
    /\ toy_bcst_rx = <<>>
    /\ newest_cfg = <<>>
    /\ disp_out = NoDispOut
    /\ nPublished = 0

\* a dispatcher spawned with the table A
DispInit ==
    /\ vc_toy_features = DispTableA
    /\ toy_bcst_rx = <<>>
    /\ newest_cfg = Config(DispTableA)
    /\ disp_out = NoDispOut
    /\ nPublished = 0

\* the features whose input processor claims the address, in table order
get_features_with_input_processors(features, addr) ==
    SelectSeq([i \in DOMAIN features |-> i],
              LAMBDA i : /\ features[i].penetration_system.pen_system
                         /\ features[i].penetration_system.address = addr)

\* get_features_from_param that does not look at feature_enabled
get_features_from_param_any(features, addr) ==
    SelectSeq([i \in DOMAIN features |-> i],
              LAMBDA i : \E j \in DOMAIN features[i].osc_parameters :
                            features[i].osc_parameters[j].parameter = addr)

\* the enabled features with a parameter of the address, in table order
get_features_from_param(features, addr) ==
    SelectSeq([i \in DOMAIN features |-> i],
              LAMBDA i : /\ features[i].feature_enabled
                         /\ \E j \in DOMAIN features[i].osc_parameters :
                               features[i].osc_parameters[j].parameter = addr)

\* a call of command_toy for the feature at position i of the table
Call(pass, i, value, f) ==
    [pass |-> pass, feature |-> i, value |-> value,
     level |-> clamp_and_flip(value, f.flip_input_float, f.feature_levels),
     sent |-> TRUE]

\* the input-processor pass for one feature (handling.rs:905-952), ret
\* being what process() returned: the feature after it and the value
\* command_toy is called with, if any
input_processor_feature(f, ret) ==
    LET ps == f.penetration_system IN
    IF ~ret.some THEN [feature |-> f, call |-> None]
    ELSE IF ps.pen_system_processing_mode = "Raw"
    THEN [feature |-> f, call |-> Some(ret.val)]
    ELSE LET r == mode_processor_logic(Float(ret.val),
                      ps.pen_system_processing_mode,
                      ps.pen_system_processing_mode_values,
                      f.feature_levels, f.flip_input_float, 0)
         IN [feature |-> [f EXCEPT
                 !.penetration_system.pen_system_processing_mode_values = r.p],
             call |-> r.ret]

\* parameter_feature that feeds every parameter of the address
parameter_feature_every(f, addr, arg) ==
    LET hit == {j \in DOMAIN f.osc_parameters :
                    f.osc_parameters[j].parameter = addr}
        first == CHOOSE j \in hit : \A k \in hit : j <= k
        R(j) == mode_processor_logic(arg, f.osc_parameters[j].processing_mode,
                    f.osc_parameters[j].processing_mode_values,
                    f.feature_levels, f.flip_input_float, 0)
    IN [feature |-> [f EXCEPT !.osc_parameters =
                        [j \in DOMAIN @ |->
                            IF j \in hit
                            THEN [@[j] EXCEPT !.processing_mode_values = R(j).p]
                            ELSE @[j]]],
        call |-> R(first).ret]

\* the parameter pass for one feature (handling.rs:1021-1056): the first
\* parameter of the address is fed
parameter_feature(f, addr, arg) ==
    LET hit == {j \in DOMAIN f.osc_parameters :
                    f.osc_parameters[j].parameter = addr}
        first == CHOOSE j \in hit : \A k \in hit : j <= k
        p == f.osc_parameters[first]
        r == mode_processor_logic(arg, p.processing_mode,
                                  p.processing_mode_values,
                                  f.feature_levels, f.flip_input_float, 0)
    IN [feature |-> [f EXCEPT
            !.osc_parameters[first].processing_mode_values = r.p],
        call |-> r.ret]

RECURSIVE InputPass(_, _, _, _)
\* the loop over the features with an input processor
InputPass(features, idxs, rets, cmds) ==
    IF idxs = <<>> THEN [features |-> features, cmds |-> cmds]
    ELSE LET i == Head(idxs)
             r == input_processor_feature(features[i], rets[i])
         IN InputPass([features EXCEPT ![i] = r.feature], Tail(idxs), rets,
                      IF r.call.some
                      THEN Append(cmds, Call("input", i, r.call.val, features[i]))
                      ELSE cmds)

RECURSIVE ParamPass(_, _, _, _, _)
\* the loop over the features with a parameter of the address
ParamPass(features, idxs, addr, arg, cmds) ==
    IF idxs = <<>> THEN [features |-> features, cmds |-> cmds]
    ELSE LET i == Head(idxs)
             r == parameter_feature(features[i], addr, arg)
         IN ParamPass([features EXCEPT ![i] = r.feature], Tail(idxs), addr, arg,
                      IF r.call.some
                      THEN Append(cmds, Call("param", i, r.call.val, features[i]))
                      ELSE cmds)

\* parse_osc_message that runs the parameter pass first
parse_osc_message_param_first(features, addr, arg, rets) ==
    LET a == ParamPass(features, get_features_from_param(features, addr),
                       addr, arg, <<>>)
    IN InputPass(a.features,
                 get_features_with_input_processors(a.features, addr),
                 rets, a.cmds)

\* parse_osc_message, rets[i] being what process() of feature i returns:
\* the table after the message and the calls of command_toy, in order
parse_osc_message(features, addr, arg, rets) ==
    LET a == InputPass(features,
                       get_features_with_input_processors(features, addr),
                       rets, <<>>)
    IN ParamPass(a.features, get_features_from_param(a.features, addr),
                 addr, arg, a.cmds)

\* update_toy that takes the table of any toy
update_toy_any_id(features, sig) == sig.parsed_toy_features

\* update_toy on the table of the dispatcher of device DevIndex
update_toy_features(features, sig) ==
    IF sig.toy_id # DevIndex THEN features ELSE sig.parsed_toy_features

\* recv that yields the newest signal of the receiver
recv_newest(rx) ==
    [sig |-> rx[Len(rx)], rx |-> SubSeq(rx, 1, Len(rx) - 1)]

\* toy_bcst_rx.recv().await: the oldest signal not yet received
recv(rx) == [sig |-> Head(rx), rx |-> Tail(rx)]

\* the ingest thread publishes an OSC message
PublishOsc(addr, arg) ==
    /\ nPublished < MaxSignals
    /\ nPublished' = nPublished + 1
    /\ toy_bcst_rx' = Append(toy_bcst_rx, OSCMsg(addr, arg, newest_cfg))
    /\ UNCHANGED <<vc_toy_features, newest_cfg, disp_out>>
    /\ UNCHANGED notDispVars

\* the supervisor publishes the AlterToy it handles (handling.rs:795-806)
PublishUpdate(toy_id, features) ==
    /\ nPublished < MaxSignals
    /\ nPublished' = nPublished + 1
    /\ toy_bcst_rx' = Append(toy_bcst_rx, UpdateToy(toy_id, features, newest_cfg))
    /\ newest_cfg' = IF toy_id = DevIndex THEN Config(features) ELSE newest_cfg
    /\ UNCHANGED <<vc_toy_features, disp_out>>
    /\ UNCHANGED notDispVars

\* one turn of the dispatcher's loop for an OSC message; oks[k] is what
\* can_send returns inside the k-th call of command_toy
DispatchOsc(rets) ==
    /\ toy_bcst_rx # <<>>
    /\ LET m == recv(toy_bcst_rx) IN
       /\ m.sig.type = "OSCMsg"
       /\ LET r == parse_osc_message(vc_toy_features, m.sig.addr, m.sig.arg, rets)
          IN /\ vc_toy_features' = r.features
             /\ \E oks \in [DOMAIN r.cmds -> BOOLEAN] :
                   disp_out' = [n |-> disp_out.n + 1, sig |-> m.sig,
                                before |-> vc_toy_features, rets |-> rets,
                                cmds |-> [k \in DOMAIN r.cmds |->
                                    [r.cmds[k] EXCEPT !.sent = oks[k]]]]
       /\ toy_bcst_rx' = m.rx
    /\ UNCHANGED <<newest_cfg, nPublished>>
    /\ UNCHANGED notDispVars

\* one turn of the dispatcher's loop for an UpdateToy
DispatchUpdate ==
    /\ toy_bcst_rx # <<>>
    /\ LET m == recv(toy_bcst_rx) IN
       /\ m.sig.type = "UpdateToy"
       /\ vc_toy_features' = update_toy_features(vc_toy_features, m.sig)
       /\ disp_out' = [n |-> disp_out.n + 1, sig |-> m.sig,
                       before |-> vc_toy_features, rets |-> NoRets,
                       cmds |-> <<>>]
       /\ toy_bcst_rx' = m.rx
    /\ UNCHANGED <<newest_cfg, nPublished>>
    /\ UNCHANGED notDispVars

DispNext ==
    \/ \E addr \in Addrs, arg \in DispArgs : PublishOsc(addr, arg)
    \/ \E toy_id \in ToyIds, features \in DispTables :
          PublishUpdate(toy_id, features)
    \/ \E rets \in [1..2 -> PenRets] : DispatchOsc(rets)
    \/ DispatchUpdate

(***************************************************************************)
(* The connection handler client_event_handler (handling.rs:104-295), one  *)
(* step per access to the live toy map, to the supervisor's channel and    *)
(* to the frontend.                                                        *)
(*   live_toys     VibeCheckState.core_toy_manager.online_toys: toy id ->  *)
(*                 toy_name and sub_id                                     *)
(*   tme_sent      what was sent on tme_send, in order                     *)
(*   fe_toy_event  the fe_toy_event events emitted, in order               *)
(*   ceh           where the handler stands: pc "idle"; "built": the VCToy *)
(*                 is built; "inserted"; "sent": AddToy is sent;           *)
(*                 "removed": the toy was taken out of the map; "rsent":   *)
(*                 RemoveToy is sent; id and sub_id of the toy in hand     *)
(*   event_stream  the device events taken so far; was: the toy of a       *)
(*                 DeviceRemoved was in the map                            *)
(***************************************************************************)
\* dev.name() of the device with that index: the devices are of one model
DevName(id) == "hush"

CehIdle == [pc |-> "idle", id |-> 0, sub_id |-> 0]

ConnInit ==
    /\ live_toys = EmptyMap
    /\ tme_sent = <<>>
    /\ fe_toy_event = <<>>
    /\ ceh = CehIdle
    /\ event_stream = <<>>

\* toy_dup_count of handling.rs:134-149
sub_id_of(toys, name) ==
    Cardinality({i \in DOMAIN toys : toys[i].toy_name = name})

\* DeviceAdded(dev): the delay, the battery, sub_id, the VCToy and its
\* config (handling.rs:119-182)
CehDeviceAdded(id) ==
    /\ ceh.pc = "idle"
    /\ Len(event_stream) < MaxDevEvents
    /\ event_stream' = Append(event_stream,
                              [ev |-> "DeviceAdded", id |-> id, was |-> FALSE])
    /\ ceh' = [pc |-> "built", id |-> id,
               sub_id |-> sub_id_of(live_toys, DevName(id))]
    /\ UNCHANGED <<live_toys, tme_sent, fe_toy_event>>
    /\ UNCHANGED notConnVars

\* online_toys.insert(toy.toy_id, toy.clone()) (handling.rs:184-192)
CehInsert ==
    /\ ceh.pc = "built"
    /\ live_toys' = MapInsert(live_toys, ceh.id,
                              [toy_name |-> DevName(ceh.id), sub_id |-> ceh.sub_id])
    /\ ceh' = [ceh EXCEPT !.pc = "inserted"]
    /\ UNCHANGED <<tme_sent, fe_toy_event, event_stream>>
    /\ UNCHANGED notConnVars

\* tme_send.send(AddToy(toy)) (handling.rs:195-197)
CehSendAddToy ==
    /\ ceh.pc = "inserted"
    /\ tme_sent' = Append(tme_sent, [ev |-> "AddToy", id |-> ceh.id])
    /\ ceh' = [ceh EXCEPT !.pc = "sent"]
    /\ UNCHANGED <<live_toys, fe_toy_event, event_stream>>
    /\ UNCHANGED notConnVars

\* emit_all("fe_toy_event", FeToyEvent::Add) and the notification
\* (handling.rs:199-231)
CehEmitAdd ==
    /\ ceh.pc = "sent"
    /\ fe_toy_event' = Append(fe_toy_event, [ev |-> "Add", id |-> ceh.id])
    /\ ceh' = CehIdle
    /\ UNCHANGED <<live_toys, tme_sent, event_stream>>
    /\ UNCHANGED notConnVars

\* CehDeviceRemoved that goes on whether the toy was in the map or not
CehDeviceRemovedUnchecked(id) ==
    /\ ceh.pc = "idle"
    /\ Len(event_stream) < MaxDevEvents
    /\ event_stream' = Append(event_stream,
           [ev |-> "DeviceRemoved", id |-> id, was |-> id \in DOMAIN live_toys])
    /\ live_toys' = MapRemove(live_toys, id)
    /\ ceh' = [pc |-> "removed", id |-> id, sub_id |-> 0]
    /\ UNCHANGED <<tme_sent, fe_toy_event>>
    /\ UNCHANGED notConnVars

\* DeviceRemoved(dev): online_toys.remove(&dev.index()) and the test of
\* what it returned (handling.rs:233-248)
CehDeviceRemoved(id) ==
    /\ ceh.pc = "idle"
    /\ Len(event_stream) < MaxDevEvents
    /\ event_stream' = Append(event_stream,
           [ev |-> "DeviceRemoved", id |-> id, was |-> id \in DOMAIN live_toys])
    /\ live_toys' = MapRemove(live_toys, id)
    /\ ceh' = IF id \in DOMAIN live_toys
              THEN [pc |-> "removed", id |-> id, sub_id |-> 0]
              ELSE CehIdle
    /\ UNCHANGED <<tme_sent, fe_toy_event>>
    /\ UNCHANGED notConnVars

\* tme_send.send(RemoveToy(dev.index())) (handling.rs:250-252)
CehSendRemoveToy ==
    /\ ceh.pc = "removed"
    /\ tme_sent' = Append(tme_sent, [ev |-> "RemoveToy", id |-> ceh.id])
    /\ ceh' = [ceh EXCEPT !.pc = "rsent"]
    /\ UNCHANGED <<live_toys, fe_toy_event, event_stream>>
    /\ UNCHANGED notConnVars

\* emit_all("fe_toy_event", FeToyEvent::Remove), the notification and the
\* scan on disconnect (handling.rs:254-278)
CehEmitRemove ==
    /\ ceh.pc = "rsent"
    /\ fe_toy_event' = Append(fe_toy_event, [ev |-> "Remove", id |-> ceh.id])
    /\ ceh' = CehIdle
    /\ UNCHANGED <<live_toys, tme_sent, event_stream>>
    /\ UNCHANGED notConnVars

ConnNext ==
    \/ \E id \in ToyIds : CehDeviceAdded(id)
    \/ CehInsert
    \/ CehSendAddToy
    \/ CehEmitAdd
    \/ \E id \in ToyIds : CehDeviceRemoved(id)
    \/ CehSendRemoveToy
    \/ CehEmitRemove

(***************************************************************************)
(* ToyRateLimiter (handling.rs:57-95).                                     *)
(*   rl_pc[c]   "idle"; "now": the clock is read; "loaded": last_update    *)
(*              and messages_per_second are loaded; "panicked"             *)
(*   rl_loc[c]  now, last, mps: the locals of can_send; sent: now of the   *)
(*              caller's latest call that returned true since the rate     *)
(*              was set (-1 if none)                                       *)
(*   win        start: now of the first call that returned true since the  *)
(*              rate was set (-1 if none); count: calls that returned true *)
(*              in the 1000 ms from start                                  *)
(***************************************************************************)
\* 1000 of "1000 / mps"
MsPerSecond == 1000

MaxClock == ClockStart + MsPerSecond

NoWindow == [start |-> -1, count |-> 0]
IdleLocals == [now |-> 0, last |-> 0, mps |-> 0, sent |-> -1]

\* ToyRateLimiter::new(10), nobody inside can_send
RlInitWith(callers) ==
    /\ clock = ClockStart
    /\ last_update = 0
    /\ messages_per_second = 10
    /\ rl_pc = [c \in callers |-> "idle"]
    /\ rl_loc = [c \in callers |-> IdleLocals]
    /\ win = NoWindow
    /\ nRateUpdates = 0

\* let interval_ms = 1000 / mps, for mps > 0
interval_ms(mps) == MsPerSecond \div mps

\* PassesCheck that lets every call through
PassesCheckAlways(now, last, mps) == TRUE

\* now - last >= interval_ms on u64, for mps > 0: a difference below zero
\* wraps to a value above every interval when overflow checks are off
\* (when they are on the call panics, see CanSendDecide)
PassesCheck(now, last, mps) ==
    IF now < last THEN TRUE ELSE now - last >= interval_ms(mps)

\* the calls counted in the second that starts at the first passing call
Counted(w, now) ==
    IF w.start = -1 THEN [start |-> now, count |-> 1]
    ELSE IF now >= w.start /\ now < w.start + MsPerSecond
         THEN [w EXCEPT !.count = w.count + 1]
         ELSE w

\* update_rate, called with the configured rate when the program starts
UpdateRate(n) ==
    /\ nRateUpdates < MaxRateUpdates
    /\ clock = ClockStart
    /\ nRateUpdates' = nRateUpdates + 1
    /\ messages_per_second' = n
    /\ win' = NoWindow
    /\ rl_loc' = [c \in DOMAIN rl_loc |-> [rl_loc[c] EXCEPT !.sent = -1]]
    /\ UNCHANGED <<clock, last_update, rl_pc>>
    /\ UNCHANGED notRlVars

\* can_send, handling.rs:75-78
CanSendReadNow(c) ==
    /\ rl_pc[c] = "idle"
    /\ rl_pc' = [rl_pc EXCEPT ![c] = "now"]
    /\ rl_loc' = [rl_loc EXCEPT ![c].now = clock]
    /\ UNCHANGED <<clock, last_update, messages_per_second, win, nRateUpdates>>
    /\ UNCHANGED notRlVars

\* can_send, handling.rs:80-81: the two relaxed loads
CanSendLoad(c) ==
    /\ rl_pc[c] = "now"
    /\ rl_pc' = [rl_pc EXCEPT ![c] = "loaded"]
    /\ rl_loc' = [rl_loc EXCEPT ![c].last = last_update,
                                ![c].mps = messages_per_second]
    /\ UNCHANGED <<clock, last_update, messages_per_second, win, nRateUpdates>>
    /\ UNCHANGED notRlVars

\* can_send, handling.rs:82-89: the division, the comparison and the store
CanSendDecide(c) ==
    /\ rl_pc[c] = "loaded"
    /\ LET l == rl_loc[c] IN
       \/ \* division by zero, or subtraction overflow with overflow checks
          /\ l.mps = 0 \/ l.now < l.last
          /\ rl_pc' = [rl_pc EXCEPT ![c] = "panicked"]
          /\ rl_loc' = [rl_loc EXCEPT ![c] = [IdleLocals EXCEPT !.sent = l.sent]]
          /\ UNCHANGED <<last_update, win>>
       \/ \* returns true
          /\ l.mps # 0 /\ PassesCheck(l.now, l.last, l.mps)
          /\ last_update' = l.now
          /\ win' = Counted(win, l.now)
          /\ rl_pc' = [rl_pc EXCEPT ![c] = "idle"]
          /\ rl_loc' = [rl_loc EXCEPT ![c] = [IdleLocals EXCEPT !.sent = l.now]]
       \/ \* returns false
          /\ l.mps # 0 /\ ~PassesCheck(l.now, l.last, l.mps)
          /\ rl_pc' = [rl_pc EXCEPT ![c] = "idle"]
          /\ rl_loc' = [rl_loc EXCEPT ![c] = [IdleLocals EXCEPT !.sent = l.sent]]
          /\ UNCHANGED <<last_update, win>>
    /\ UNCHANGED <<clock, messages_per_second, nRateUpdates>>
    /\ UNCHANGED notRlVars

\* time passes between two calls: one interval of the current rate
TickInterval ==
    /\ \A c \in DOMAIN rl_pc : rl_pc[c] \in {"idle", "panicked"}
    /\ messages_per_second # 0
    /\ interval_ms(messages_per_second) > 0
    /\ clock + interval_ms(messages_per_second) <= MaxClock
    /\ clock' = clock + interval_ms(messages_per_second)
    /\ UNCHANGED <<last_update, messages_per_second, rl_pc, rl_loc, win,
                   nRateUpdates>>
    /\ UNCHANGED notRlVars

\* time passes, also inside a call: 1 ms
TickSmall ==
    /\ clock < ClockStart + MaxSmallTicks
    /\ clock' = clock + 1
    /\ UNCHANGED <<last_update, messages_per_second, rl_pc, rl_loc, win,
                   nRateUpdates>>
    /\ UNCHANGED notRlVars

RlNext ==
    \/ \E n \in Rates : UpdateRate(n)
    \/ \E c \in DOMAIN rl_pc : CanSendReadNow(c)
    \/ \E c \in DOMAIN rl_pc : CanSendLoad(c)
    \/ \E c \in DOMAIN rl_pc : CanSendDecide(c)
    \/ TickInterval
    \/ TickSmall

\* one caller: the calls of can_send do not overlap
InitSeq == TmhInit /\ RlInitWith({1}) /\ MpInit /\ ToyInit /\ DispNone /\ ConnInit
SpecSeq == InitSeq /\ [][RlNext]_vars

RaceNext ==
    \/ \E n \in Rates : UpdateRate(n)
    \/ \E c \in DOMAIN rl_pc : CanSendReadNow(c)
    \/ \E c \in DOMAIN rl_pc : CanSendLoad(c)
    \/ \E c \in DOMAIN rl_pc : CanSendDecide(c)
    \/ TickSmall

\* two dispatcher tasks on the worker threads of the runtime, within a few
\* milliseconds
InitRace == TmhInit /\ RlInitWith({1, 2}) /\ MpInit /\ ToyInit /\ DispNone /\ ConnInit
SpecRace == InitRace /\ [][RaceNext]_vars

(***************************************************************************)
(* Properties of the rate limiter.                                         *)
(***************************************************************************)
\* C8: of two calls by different tasks that fall into the same interval,
\* at most one returns true.
C8_OneWinnerPerInterval ==
    \A c, d \in DOMAIN rl_loc :
        (c # d /\ rl_loc[c].sent # -1 /\ rl_loc[d].sent # -1
            /\ messages_per_second >= 1)
        => Abs(rl_loc[c].sent - rl_loc[d].sent) >= interval_ms(messages_per_second)

\* C9: at rate n >= 1, at most n calls return true in the 1000 ms that
\* start at a passing call.
C9_AtMostRatePerSecond ==
    (win.start # -1 /\ messages_per_second >= 1)
    => win.count <= messages_per_second

\* C10: with calls one at a time, at rate n >= 1 at most n + 1 calls return
\* true in the 1000 ms that start at a passing call.
C10_AtMostRatePlusOnePerSecond ==
    (win.start # -1 /\ messages_per_second >= 1)
    => win.count <= messages_per_second + 1

\* C11: with calls one at a time and a rate n set once, 1 <= n <= 1000, a
\* call that returns true is at least floor(1000 / n) ms after the call
\* that returned true before it, so a burst shorter than the interval gets
\* at most one command through.
C11_PassStep ==
    \A c \in DOMAIN rl_pc :
        LET l == rl_loc[c] IN
        (/\ rl_pc[c] = "loaded" /\ rl_pc'[c] = "idle"
         /\ l.mps # 0 /\ l.now >= l.last /\ PassesCheck(l.now, l.last, l.mps)
         /\ l.sent # -1
         /\ l.mps = messages_per_second
         /\ messages_per_second >= 1 /\ messages_per_second <= MsPerSecond)
        => l.now - l.sent >= interval_ms(messages_per_second)

C11_PassesAnIntervalApart == [][C11_PassStep]_vars

\* two calls have returned true at one rate, more than an interval apart
C11_Witness ==
    /\ DOMAIN rl_loc = {1}
    /\ nRateUpdates = 1
    /\ messages_per_second \in {3, 36}
    /\ win.count >= 2
    /\ rl_loc[1].sent > win.start + interval_ms(messages_per_second)
    /\ rl_pc[1] = "idle"

RlInit ==
    /\ clock = ClockStart
    /\ last_update = 0
    /\ messages_per_second = 10
    /\ rl_pc = <<>>
    /\ rl_loc = <<>>
    /\ win = NoWindow
    /\ nRateUpdates = 0

Init == TmhInit /\ RlInit /\ MpInit /\ ToyInit /\ DispNone /\ ConnInit
Spec == Init /\ [][Next]_vars

InitMode == TmhInit /\ RlInit /\ MpInitAny /\ ToyInit /\ DispNone /\ ConnInit
SpecMode == InitMode /\ [][ModeNext]_vars

InitToy == TmhInit /\ RlInit /\ MpInit /\ ToyInitAny /\ DispNone /\ ConnInit
SpecToy == InitToy /\ [][ToyNext]_vars

InitDisp == TmhInit /\ RlInit /\ MpInit /\ ToyInit /\ DispInit /\ ConnInit
SpecDisp == InitDisp /\ [][DispNext]_vars

InitConn == TmhInit /\ RlInit /\ MpInit /\ ToyInit /\ DispNone /\ ConnInit
SpecConn == InitConn /\ [][ConnNext]_vars

(***************************************************************************)
(* Properties of the signal processors.                                    *)
(***************************************************************************)
\* the float of the input processed last
LastFloat == mp_out.input.f
\* ms from last_tick to the call processed last (last_tick is set by the
\* call itself on first use)
LastElapsed ==
    IF mp_out.before.rate_timestamp = NoInstant THEN 0
    ELSE mp_out.at - mp_out.before.rate_timestamp

\* C12: in Smooth mode with smooth_rate = k, of k non-zero floats fed one
\* after another from an empty queue the first k - 1 yield no emission and
\* the k-th yields the mean of the k, rounded to hundredths.
C12_SmoothEmitsAtKth ==
    (/\ feature.mode = "Smooth" /\ run.on
     /\ \A i \in 1..Len(run.ins) : run.ins[i] >= 0 /\ run.ins[i] <= Hundred) =>
        LET k == feature.feature_levels.smooth_rate IN
        /\ \A i \in 1..Len(run.outs) : i < k => ~run.outs[i].some
        /\ Len(run.ins) = k => run.outs[k] = Some(RoundMean(run.ins))

\* C13: in Smooth mode, from an empty queue, the queue is never longer than
\* smooth_rate after an input.
C13_SmoothQueueBounded ==
    feature.mode = "Smooth" =>
        Len(processor.smooth_queue) <= feature.feature_levels.smooth_rate

\* a non-zero float has been fed to a full queue of three
C13_Witness ==
    /\ feature.mode = "Smooth"
    /\ feature.feature_levels.smooth_rate = 3
    /\ Len(mp_out.before.smooth_queue) = 3
    /\ mp_out.input.type = "Float"
    /\ ~SmoothZero(LastFloat, feature.flip_input_float)
    /\ Len(processor.smooth_queue) = 1

\* C14: in Rate mode a non-zero-equivalent float v processed less than
\* 150 ms after last_tick sets saved_level to
\* clamp(saved_level + |v - saved_input|, 0, 1) and saved_input to v and
\* emits the new saved_level.
C14_RateAddsDistance ==
    (/\ feature.mode = "Rate"
     /\ mp_out.at # -1
     /\ mp_out.input.type = "Float"
     /\ ~RateZero(LastFloat, feature.flip_input_float)
     /\ LastElapsed < RateTickMs)
    => /\ processor.rate_saved_level =
            Clamp(mp_out.before.rate_saved_level
                    + Abs(LastFloat - mp_out.before.rate_saved_osc_input),
                  0, Hundred)
       /\ processor.rate_saved_osc_input = LastFloat
       /\ mp_out.some
       /\ mp_out.val = processor.rate_saved_level

\* C15: in Rate mode, when 150 ms or more have passed since last_tick with
\* no input in between, the value emitted for the next float is at most
\* clamp(saved_level - rate_tune, 0, 1), saved_level being the level before
\* that input.
C15_RateDecaysAfterSilence ==
    (/\ feature.mode = "Rate"
     /\ mp_out.input.type = "Float"
     /\ mp_out.before.rate_timestamp # NoInstant
     /\ mp_out.prev_at <= mp_out.before.rate_timestamp
     /\ LastElapsed >= RateTickMs
     /\ mp_out.before.rate_saved_level >= 0
     /\ mp_out.before.rate_saved_level <= Hundred)
    => /\ mp_out.some
       /\ mp_out.val <= Clamp(mp_out.before.rate_saved_level
                                - feature.feature_levels.rate_tune, 0, Hundred)

\* C16: for an input in [0, 1] the level of the device command is in
\* [0, 1] and is idle_level, constant_level or the processor's value
\* clamped to [minimum_level, maximum_level], flipped when flip is set.
C16_CommandLevelInRange ==
    (/\ mp_out.sent
     /\ mp_out.input.type = "Float" => (LastFloat >= 0 /\ LastFloat <= Hundred))
    => LET l == feature.feature_levels
           pre == IF feature.flip_input_float
                  THEN Hundred - mp_out.level ELSE mp_out.level
       IN /\ mp_out.level >= 0 /\ mp_out.level <= Hundred
          /\ pre \in {l.idle_level, l.constant_level,
                      Clamp(mp_out.val, l.minimum_level, l.maximum_level)}

\* a flipped command whose value was above maximum_level
C16_Witness ==
    /\ mp_out.sent
    /\ feature.flip_input_float
    /\ mp_out.input.type = "Float" /\ LastFloat = 90
    /\ mp_out.val > feature.feature_levels.maximum_level
    /\ mp_out.level = Hundred - feature.feature_levels.maximum_level

\* C17: in Constant mode a boolean true or a float >= 0.5 yields
\* constant_level and any other input 0.0; with the default minimum,
\* maximum and idle levels and no flip the command carries that value.
C17_ConstantYieldsLevel ==
    (feature.mode = "Constant" /\ mp_out.at # -1) =>
        LET l == feature.feature_levels
            high == \/ mp_out.input.type = "Bool" /\ mp_out.input.b
                    \/ mp_out.input.type = "Float" /\ LastFloat >= 50
        IN /\ mp_out.some
           /\ mp_out.val = IF high THEN l.constant_level ELSE 0
           /\ (/\ mp_out.sent /\ ~feature.flip_input_float
               /\ l.minimum_level = 0 /\ l.maximum_level = Hundred
               /\ l.idle_level = 0)
              => mp_out.level = mp_out.val

\* the float 0.5 has been sent as 0.75 with the default levels
C17_Witness ==
    /\ feature.mode = "Constant"
    /\ feature.feature_levels = DefaultLevels
    /\ ~feature.flip_input_float
    /\ mp_out.input = Float(50)
    /\ mp_out.sent
    /\ mp_out.level = 75

\* the level of Rate mode after the last input, before any decrement
RateRaised ==
    Clamp(mp_out.before.rate_saved_level
            + Clamp(Abs(LastFloat - mp_out.before.rate_saved_osc_input),
                    0, Hundred),
          0, Hundred)

\* C29: in Rate mode last_tick becomes the instant of an input when it
\* was not set or when the input is a non-zero float 150 ms or more after
\* it, which is when rate_tune is taken off the level, and is left as it
\* was by every other input; a non-zero float less than 150 ms after
\* last_tick yields the level with nothing taken off.
C29_RateTickReset ==
    (feature.mode = "Rate" /\ mp_out.at # -1) =>
        LET was_set == mp_out.before.rate_timestamp # NoInstant
            nz == /\ mp_out.input.type = "Float"
                  /\ ~RateZero(LastFloat, feature.flip_input_float)
            due == was_set /\ nz /\ LastElapsed >= RateTickMs
        IN /\ processor.rate_timestamp =
                 IF ~was_set \/ due THEN mp_out.at
                 ELSE mp_out.before.rate_timestamp
           /\ nz => processor.rate_saved_level =
                        IF due
                        THEN Clamp(RateRaised - feature.feature_levels.rate_tune,
                                   0, Hundred)
                        ELSE RateRaised
           /\ (nz /\ ~due) => mp_out.some /\ mp_out.val = RateRaised

\* a float right after the float that took rate_tune off the level: the
\* level is raised and nothing is taken off
C29_Witness ==
    /\ feature.mode = "Rate"
    /\ mp_out.prev_at > 0
    /\ mp_out.before.rate_timestamp = mp_out.prev_at
    /\ mp_out.at - mp_out.prev_at < RateTickMs
    /\ mp_out.input.type = "Float"
    /\ ~RateZero(LastFloat, feature.flip_input_float)
    /\ processor.rate_timestamp = mp_out.prev_at
    /\ mp_out.val > mp_out.before.rate_saved_level
    /\ mp_out.val > Clamp(mp_out.val - feature.feature_levels.rate_tune,
                          0, Hundred)

(***************************************************************************)
(* Properties of the feature tables.                                       *)
(***************************************************************************)
\* the table auto-population gives a new toy of a device that advertises a
AutoTable(a) ==
    populate_scalars(
        populate_rotators(populate_linears(<<>>, 0, a.linear), 0, a.rotate),
        0, a.scalar)

\* C18: in every feature table reached through auto-population, a loaded
\* config and updates of the frontend, each feature has
\* minimum_level <= maximum_level.
C18_MinimumBelowMaximum ==
    toy.online =>
        \A i \in DOMAIN toy.parsed_toy_features :
            toy.parsed_toy_features[i].feature_levels.minimum_level
                <= toy.parsed_toy_features[i].feature_levels.maximum_level

\* C19: after auto-population no two features of the toy have the same
\* feature type and the same feature index.
C19_IndexUniqueInType ==
    (toy.online /\ toy_added.source = "auto") =>
        LET fs == toy.parsed_toy_features IN
        \A i, j \in DOMAIN fs :
            (i # j) => \/ fs[i].feature_type # fs[j].feature_type
                       \/ fs[i].feature_index # fs[j].feature_index

\* an auto-populated toy with a rotate actuator, a scalar Rotate and a
\* scalar Unknown: a Rotator and a ScalarRotator, both of index 0
C19_Witness ==
    /\ toy.online /\ toy_added.source = "auto"
    /\ toy.toy_features.rotate = 1
    /\ toy.toy_features.scalar = <<"Rotate", "Unknown">>
    /\ \E i, j \in DOMAIN toy.parsed_toy_features :
          /\ toy.parsed_toy_features[i].feature_type = "Rotator"
          /\ toy.parsed_toy_features[j].feature_type = "ScalarRotator"
          /\ toy.parsed_toy_features[i].feature_index
                = toy.parsed_toy_features[j].feature_index

\* C20: when a device is added its table is the one of the saved config if
\* and only if a config was loaded and has as many features as the device
\* advertises scalar, rotate and linear actuators; in every other case the
\* table is auto-populated and the config is written.
C20_AddStep ==
    (~toy.online /\ toy'.online) =>
        LET a == toy'.toy_features
            reuse == /\ toy_file.state = "ok"
                     /\ Len(toy_file.features)
                            = Len(a.scalar) + a.rotate + a.linear
        IN IF reuse
           THEN /\ toy_added'.source = "config"
                /\ toy'.parsed_toy_features = toy_file.features
           ELSE /\ toy_added'.source = "auto"
                /\ toy'.parsed_toy_features = AutoTable(a)
                /\ toy_added'.wrote
                /\ toy_file' = FileOf(AutoTable(a))

C21_ResetEmptiesToyMap ==
    (handled.ev = "TMHReset" /\ handled.wasListening) =>
        DOMAIN online_toys = {}

\* C22: a dispatcher handles the signals in the order they were published:
\* when it has handled a signal it has handled every signal published
\* before it and none published after it, and an OSC message is processed
\* with the table of the last UpdateToy for its device published before the
\* message (the table it was spawned with if there is none).
C22_SignalsInPublicationOrder ==
    disp_out.n # 0 =>
        /\ disp_out.n + Len(toy_bcst_rx) = nPublished
        /\ disp_out.sig.type = "OSCMsg" =>
              /\ Config(disp_out.before) = disp_out.sig.cfg
              /\ Config(vc_toy_features) = disp_out.sig.cfg
        /\ toy_bcst_rx = <<>> => Config(vc_toy_features) = newest_cfg

\* an OSC message, an UpdateToy with another table and an OSC message have
\* been handled, the second message with the new table
C22_Witness ==
    /\ disp_out.n = 3
    /\ disp_out.sig.type = "OSCMsg"
    /\ disp_out.sig.cfg = Config(DispTableB)
    /\ disp_out.cmds # <<>>
    /\ Config(disp_out.before) # Config(DispTableA)

\* the first parameter of the address in the feature f
FirstParam(f, addr) ==
    LET hit == {j \in DOMAIN f.osc_parameters :
                    f.osc_parameters[j].parameter = addr}
    IN IF hit = {} THEN 0 ELSE CHOOSE j \in hit : \A k \in hit : j <= k

\* C23: of the calls of command_toy made for one OSC message none of the
\* parameter pass precedes one of the input-processor pass, and both
\* passes run: a feature whose input processor returned a value in Raw
\* mode and a feature whose first parameter of the address is Raw each get
\* their call.
C23_InputPassBeforeParameterPass ==
    (disp_out.n # 0 /\ disp_out.sig.type = "OSCMsg") =>
        LET c == disp_out.cmds
            b == disp_out.before
            addr == disp_out.sig.addr
        IN /\ \A j, k \in DOMAIN c :
                 j < k => ~(c[j].pass = "param" /\ c[k].pass = "input")
           /\ \A i \in DOMAIN b :
                 (/\ b[i].penetration_system.pen_system
                  /\ b[i].penetration_system.address = addr
                  /\ b[i].penetration_system.pen_system_processing_mode = "Raw"
                  /\ disp_out.rets[i].some)
                 => \E k \in DOMAIN c : c[k].pass = "input" /\ c[k].feature = i
           /\ \A i \in DOMAIN b :
                 (/\ b[i].feature_enabled
                  /\ FirstParam(b[i], addr) # 0
                  /\ b[i].osc_parameters[FirstParam(b[i], addr)].processing_mode
                        = "Raw")
                 => \E k \in DOMAIN c : c[k].pass = "param" /\ c[k].feature = i

\* one message has led to a command of each pass, both sent
C23_Witness ==
    /\ disp_out.sig.type = "OSCMsg"
    /\ Len(disp_out.cmds) = 2
    /\ disp_out.cmds[1].pass = "input" /\ disp_out.cmds[1].sent
    /\ disp_out.cmds[2].pass = "param" /\ disp_out.cmds[2].sent

\* C25: while Listening no two live dispatcher tasks of the session have
\* the same toy id.
C25_OneDispatcherPerToy ==
    listening =>
        \A j, k \in DOMAIN tasks :
            (/\ j # k
             /\ tasks[j].session = session /\ tasks[k].session = session
             /\ tasks[j].status \in Live /\ tasks[k].status \in Live)
            => tasks[j].toy # tasks[k].toy

\* the dispatcher tasks that hold a receiver of the channel of a session
Subscribers(sess) ==
    {k \in DOMAIN tasks : tasks[k].session = sess /\ tasks[k].status \in Live}

\* C26: when StopListening or TMHReset has been handled while Listening
\* and the supervisor has dropped its receiver, the channel of the session
\* has no subscriber left and the ingest thread of the session, if it
\* still runs, fails at its next publish and exits.
C26_ChannelClosedAfterStop ==
    (handled.ev \in {"StopListening", "TMHReset"} /\ handled.wasListening) =>
        /\ Subscribers(session) = {}
        /\ \A k \in DOMAIN ingest :
              (ingest[k].session = session /\ ingest[k].alive)
                  => ENABLED IngestExit(k)

\* C27: an UpdateToy for another device leaves the dispatcher's table,
\* the state of its mode processors included, as it was; an UpdateToy for
\* its own device makes the table the one of the update, the state of the
\* mode processors included.
C27_UpdateToyOwnDeviceOnly ==
    (disp_out.n # 0 /\ disp_out.sig.type = "UpdateToy") =>
        IF disp_out.sig.toy_id = DevIndex
        THEN vc_toy_features = disp_out.sig.parsed_toy_features
        ELSE vc_toy_features = disp_out.before

\* an update for the other device has been handled by a dispatcher whose
\* smooth queues were not empty
C27_Witness ==
    /\ disp_out.sig.type = "UpdateToy"
    /\ disp_out.sig.toy_id # DevIndex
    /\ disp_out.before # Config(disp_out.before)
    /\ Config(disp_out.sig.parsed_toy_features) # Config(disp_out.before)
    /\ vc_toy_features = disp_out.before

\* the calls of command_toy the parameter pass made for feature i
ParamCalls(i) ==
    {k \in DOMAIN disp_out.cmds :
        disp_out.cmds[k].pass = "param" /\ disp_out.cmds[k].feature = i}

\* C28: for an OSC message, of the parameters of a feature whose address
\* is the one of the message the first in list order is fed to its mode
\* processor, every other parameter of the feature keeps its mode values,
\* and the parameter pass calls command_toy at most once for the feature.
C28_FirstParameterOnly ==
    (disp_out.n # 0 /\ disp_out.sig.type = "OSCMsg") =>
        \A i \in DOMAIN disp_out.before :
            LET b == disp_out.before[i]
                a == vc_toy_features[i]
                first == FirstParam(b, disp_out.sig.addr)
            IN /\ \A j \in DOMAIN b.osc_parameters :
                     j # first => a.osc_parameters[j] = b.osc_parameters[j]
               /\ (first # 0 /\ b.feature_enabled) =>
                     a.osc_parameters[first].processing_mode_values =
                        mode_processor_logic(disp_out.sig.arg,
                            b.osc_parameters[first].processing_mode,
                            b.osc_parameters[first].processing_mode_values,
                            b.feature_levels, b.flip_input_float, 0).p
               /\ Cardinality(ParamCalls(i)) <= 1

\* a message has advanced the smooth queue of the first of two parameters
\* of its address and led to one command of the feature
C28_Witness ==
    /\ disp_out.sig.type = "OSCMsg"
    /\ \E i \in DOMAIN disp_out.before :
          LET b == disp_out.before[i]
              hit == {j \in DOMAIN b.osc_parameters :
                         b.osc_parameters[j].parameter = disp_out.sig.addr}
              first == FirstParam(b, disp_out.sig.addr)
          IN /\ Cardinality(hit) = 2
             /\ vc_toy_features[i].osc_parameters[first] # b.osc_parameters[first]
             /\ Cardinality(ParamCalls(i)) = 1

\* C30: an event the supervisor handles while Idle, StartListening apart,
\* leaves it Idle and creates no dispatcher, channel or ingest thread;
\* AddToy and AlterToy put the toy in the map, RemoveToy takes it out,
\* StopListening and TMHReset change nothing.
C30_IdleStep ==
    (~listening /\ nEvents' # nEvents) =>
        LET e == handled' IN
        /\ listening' => e.ev = "StartListening"
        /\ e.ev # "StartListening" =>
              /\ UNCHANGED <<tmh_alive, listening, vc_config, running_toy_ths,
                             tasks, session, bcst, ingest>>
              /\ e.ev \in {"AddToy", "AlterToy"} =>
                    /\ DOMAIN online_toys' = DOMAIN online_toys \cup {e.id}
                    /\ \A i \in DOMAIN online_toys :
                          i # e.id => online_toys'[i] = online_toys[i]
              /\ e.ev = "RemoveToy" =>
                    online_toys' = MapRemove(online_toys, e.id)
              /\ e.ev \in {"StopListening", "TMHReset"} =>
                    online_toys' = online_toys

C30_IdleChangesOnlyToyMap == [][C30_IdleStep]_vars

\* back in Idle after a session, the supervisor has handled a TMHReset
\* with a toy in its map
C30_Witness ==
    /\ handled.ev = "TMHReset" /\ ~handled.wasListening
    /\ ~listening /\ session = 1 /\ nEvents = 4
    /\ DOMAIN online_toys # {}
    /\ DOMAIN running_toy_ths = {}

(***************************************************************************)
(* Properties of the connection handler.                                   *)
(***************************************************************************)
\* what the supervisor is to be told of a device event
ToldOf(e) ==
    [ev |-> IF e.ev = "DeviceAdded" THEN "AddToy" ELSE "RemoveToy", id |-> e.id]

\* what the frontend is to be told of a message to the supervisor
FeOf(m) == [ev |-> IF m.ev = "AddToy" THEN "Add" ELSE "Remove", id |-> m.id]

\* the first n elements of s are the elements of p
IsPrefix(p, s) == Len(p) <= Len(s) /\ \A i \in DOMAIN p : p[i] = s[i]

\* the device events that lead to a message: every DeviceAdded, and the
\* DeviceRemoved of a toy that was in the map
Effective ==
    SelectSeq(event_stream, LAMBDA e : e.ev = "DeviceAdded" \/ e.was)

\* C24: AddToy(t) is sent when t is in the live map and the toy-add event
\* is not yet emitted; RemoveToy(id) and the toy-remove event follow a
\* DeviceRemoved exactly when the toy was in the map, the toy being out of
\* the map when they are sent; the supervisor is sent AddToy and RemoveToy
\* in the order of the device events.
C24_ConnectionHandlerOrder ==
    LET told == [i \in DOMAIN Effective |-> ToldOf(Effective[i])]
        fe == [i \in DOMAIN tme_sent |-> FeOf(tme_sent[i])]
    IN /\ IsPrefix(tme_sent, told)
       /\ IsPrefix(fe_toy_event, fe)
       /\ Len(tme_sent) = IF ceh.pc \in {"built", "inserted", "removed"}
                          THEN Len(told) - 1 ELSE Len(told)
       /\ Len(fe_toy_event) = IF ceh.pc \in {"sent", "rsent"}
                              THEN Len(tme_sent) - 1 ELSE Len(tme_sent)
       /\ ceh.pc \in {"inserted", "sent"} => ceh.id \in DOMAIN live_toys
       /\ ceh.pc \in {"removed", "rsent"} => ceh.id \notin DOMAIN live_toys

\* a toy was added, removed, removed once more and added again
C24_Witness ==
    /\ ceh.pc = "idle"
    /\ Len(event_stream) = 4
    /\ \E id \in ToyIds :
          /\ \A i \in DOMAIN event_stream : event_stream[i].id = id
          /\ event_stream[3].ev = "DeviceRemoved" /\ ~event_stream[3].was
          /\ tme_sent = <<[ev |-> "AddToy", id |-> id],
                          [ev |-> "RemoveToy", id |-> id],
                          [ev |-> "AddToy", id |-> id]>>
          /\ id \in DOMAIN live_toys
    /\ Len(fe_toy_event) = 3

(***************************************************************************)
(* Further properties of the mode processors.                              *)
(***************************************************************************)

\* C31: in Smooth mode, after a zero-equivalent float (0.0 without flip,
\* 1.0 with flip) has been processed the smoothing queue is empty, whatever
\* its length was before.
C31_ZeroEmptiesSmoothQueue ==
    (/\ feature.mode = "Smooth"
     /\ mp_out.at # -1
     /\ mp_out.input.type = "Float"
     /\ SmoothZero(LastFloat, feature.flip_input_float))
    => processor.smooth_queue = <<>>

\* C32: for a Rate-mode feature with idle_level 0, every zero-equivalent
\* float (v <= 0 without flip, v >= 1 with flip) whose command passes the
\* rate limiter is sent to the device with level 0.0, with and without
\* flip.
C32_RateZeroCommandsZero ==
    (/\ feature.mode = "Rate"
     /\ feature.feature_levels.idle_level = 0
     /\ mp_out.at # -1
     /\ mp_out.input.type = "Float"
     /\ RateZero(LastFloat, feature.flip_input_float)
     /\ mp_out.sent)
    => mp_out.level = 0

\* C33: the mode processor runs before the rate limiter is asked: when
\* the processor produced a value and can_send returned false, no command
\* reaches the device, and the parameter's mode state (smooth queue,
\* saved_level, saved_input, last_tick) is what the processor computes from
\* the state before the input, as when the command is sent.
C33_ModeStateAdvancesWhenLimited ==
    (mp_out.at # -1 /\ mp_out.some /\ ~mp_out.sent)
    => /\ mp_out.level = 0
       /\ processor =
            mode_processor_logic(mp_out.input, feature.mode, mp_out.before,
                                 feature.feature_levels,
                                 feature.flip_input_float, mp_out.at).p

\* a Rate-mode float was rate limited and saved_level and saved_input
\* moved all the same
C33_Witness ==
    /\ feature.mode = "Rate"
    /\ mp_out.at # -1
    /\ mp_out.input.type = "Float"
    /\ mp_out.some
    /\ ~mp_out.sent
    /\ processor.rate_saved_level # mp_out.before.rate_saved_level
    /\ processor.rate_saved_osc_input # mp_out.before.rate_saved_osc_input

(***************************************************************************)
(* Further properties of the supervisor and the ingest thread.             *)
(***************************************************************************)

\* C34: at most one OSC ingest thread is alive at any time, also when
\* StartListening is handled after StopListening or TMHReset before the
\* ingest thread of the previous Listening session has seen that its
\* channel has no subscribers.
C34_OneIngestAlive ==
    Cardinality({k \in DOMAIN ingest : ingest[k].alive}) <= 1

\* C35: a StartListening handled while the supervisor is Listening only
\* replaces the stored networking config with the one it carries: the
\* dispatcher tasks and their handles, the broadcast channel, the ingest
\* threads and the toy map are unchanged and the supervisor stays
\* Listening.
C35_ListenStartStep ==
    (listening /\ nEvents' # nEvents /\ handled'.ev = "StartListening")
    => /\ listening'
       /\ vc_config' \in ListenNets
       /\ UNCHANGED <<tmh_alive, online_toys, running_toy_ths, tasks,
                      session, bcst, ingest>>

C35_ListenStartReplacesConfigOnly == [][C35_ListenStartStep]_vars

\* StartListening has been handled while Listening, with a dispatcher
\* running and a message in the channel, and the config is the new one
C35_Witness ==
    /\ handled.ev = "StartListening" /\ handled.wasListening
    /\ listening
    /\ vc_config = "n2"
    /\ \E k \in DOMAIN tasks : tasks[k].status \in Live
    /\ \E k \in DOMAIN ingest : ingest[k].alive
    /\ bcst # <<>>

(***************************************************************************)
(* Further properties of the connection handler.                           *)
(***************************************************************************)

\* C36: after any sequence of DeviceAdded and DeviceRemoved events, no two
\* toys that are in the live toy map together and have the same name have
\* the same sub_id.
C36_SubIdsDistinct ==
    \A i, j \in DOMAIN live_toys :
        (i # j /\ live_toys[i].toy_name = live_toys[j].toy_name)
        => live_toys[i].sub_id # live_toys[j].sub_id

(***************************************************************************)
(* Further properties of the feature tables.                               *)
(***************************************************************************)

\* C37: auto-population is stable: when the saved config is the one the
\* auto-populate routine wrote for the device added last and a device
\* advertising the same actuators is added, the config is reused and
\* nothing is regenerated or written, for every actuator list, scalar
\* actuators of kind Unknown included.
C37_ReAddStep ==
    (/\ ~toy.online /\ toy'.online
     /\ toy_added.source = "auto" /\ toy_added.wrote
     /\ toy_added.adv = toy'.toy_features
     /\ toy_file = FileOf(AutoTable(toy_added.adv)))
    => /\ toy_added'.source = "config"
       /\ ~toy_added'.wrote
       /\ toy'.parsed_toy_features = toy_file.features

C37_AutoPopulationStable == [][C37_ReAddStep]_vars

\* C38: VCToyFeatures::from_fe with a frontend feature of a given (feature
\* type, feature index) updates one feature of the table when it returns
\* true and none when it returns false: an update of the frontend changes
\* at most one feature, in every table auto-population can produce, those
\* with a Rotator and a ScalarRotator of the same index included.
C38_FeUpdateStep ==
    (toy.online /\ nFeUpdates' # nFeUpdates)
    => Cardinality({i \in DOMAIN toy.parsed_toy_features :
                      toy'.parsed_toy_features[i] # toy.parsed_toy_features[i]})
          <= 1

C38_FromFeUpdatesOneFeature == [][C38_FeUpdateStep]_vars

(***************************************************************************)
(* Further properties of the dispatcher.                                   *)
(***************************************************************************)

\* C39: a feature whose enabled flag is false is never selected by the
\* parameter pass: an OSC message on the address of one of its parameters
\* leaves the mode state of all its parameters as it was and the pass calls
\* command_toy for none of them, whatever the mode.
C39_DisabledFeatureSkipped ==
    (disp_out.n > 0 /\ disp_out.sig.type = "OSCMsg") =>
        \A i \in DOMAIN disp_out.before :
            ~disp_out.before[i].feature_enabled =>
                /\ vc_toy_features[i].osc_parameters
                      = disp_out.before[i].osc_parameters
                /\ \A k \in DOMAIN disp_out.cmds :
                      ~(/\ disp_out.cmds[k].pass = "param"
                        /\ disp_out.cmds[k].feature = i)

\* a float on "/a" has been handled with a table whose first feature is
\* not enabled and has a Smooth parameter of that address; the enabled
\* second feature was commanded
C39_Witness ==
    /\ disp_out.n > 0 /\ disp_out.sig.type = "OSCMsg"
    /\ disp_out.sig.addr = "/a" /\ disp_out.sig.arg = Float(20)
    /\ Len(disp_out.before) = 2
    /\ ~disp_out.before[1].feature_enabled
    /\ disp_out.before[1].osc_parameters[1].parameter = "/a"
    /\ disp_out.before[1].osc_parameters[1].processing_mode = "Smooth"
    /\ \E k \in DOMAIN disp_out.cmds :
          disp_out.cmds[k].pass = "param" /\ disp_out.cmds[k].feature = 2

(***************************************************************************)
(* Further properties of ToyRateLimiter.                                   *)
(***************************************************************************)

\* C40: for every value passed to update_rate, 0 included, and every clock
\* value, a later call of can_send completes and returns true or false: no
\* call fails.
C40_CanSendNeverFails ==
    \A c \in DOMAIN rl_pc : rl_pc[c] # "panicked"

====
